---- MODULE Spec2Model ----
(***************************************************************************)
(* A model of the genai chat layer: the conversation model (ChatRequest,   *)
(* combine_systems), the OpenAI / Anthropic / Gemini translators           *)
(* (request building and response parsing) and the tool invocation bridge. *)
(*                                                                         *)
(* Text is a sequence of one-character strings.  A serde_json::Value is a  *)
(* tagged record; an object is a function from keys (texts) to Values.     *)
(***************************************************************************)
EXTENDS Integers, Sequences, FiniteSets, TLC

VARIABLES
    chat_req,      \* the ChatRequest the caller owns: [messages, tools]
    web_response,  \* the body of the WebResponse handed to a response parser
    thermostat,    \* examples/c07: Thermostat.temp
    out,           \* what the last operation returned
    chat_stream,   \* the streaming response a caller is consuming
    once,          \* the OnceLock of every adapter's default configuration
    tasks,         \* the tasks calling default_adapter_config: where each is
    driver         \* examples/c07: where main's conversation loop is

vars == <<chat_req, web_response, thermostat, out, chat_stream, once, tasks, driver>>

\* ------------------------------------------------------------------ bounds

\* The events taken from the transport of one streaming response.
MaxEvents == 3

\* The tasks that call default_adapter_config.
MaxTasks == 2

\* The chat calls main's conversation loop makes.
MaxTurns == 3

\* Most messages of a ChatRequest whose System contents are combined.
MaxMsgs == 4

\* Most messages of a ChatRequest handed to a translator.
MaxReqMsgs == 2

\* Most tool declarations of a ChatRequest.
MaxTools == 1

\* ------------------------------------------------------------- characters

NL == "\n"
Q == "\""
BS == "\\"
SP == " "

\* Option<T>
None == [some |-> FALSE]
Some(v) == [some |-> TRUE, v |-> v]

\* Result<T, E>
Ok(v) == [ok |-> TRUE, v |-> v]
Err(e) == [ok |-> FALSE, err |-> e]

\* Result::and_then, and the ? operator: an error ends the computation.
AndThen(result, F(_)) == IF result.ok THEN F(result.v) ELSE result

\* Result::map
MapOk(result, F(_)) == IF result.ok THEN Ok(F(result.v)) ELSE result

\* Option::unwrap_or
unwrap_or(opt, default) == IF opt.some THEN opt.v ELSE default

\* str::ends_with(char)
ends_with(s, c) == Len(s) > 0 /\ s[Len(s)] = c

\* str::starts_with(prefix)
starts_with(s, p) == Len(s) >= Len(p) /\ SubSeq(s, 1, Len(p)) = p

\* The characters of the model in code-point order (the order of the keys
\* of a serde_json Map).
Alphabet ==
    << NL, SP, Q, "'", ",", "0", "1", "2", "3", "4", "5", "6", "7", "8", "9",
       ":", "[", BS, "]", "_", "a", "b", "c", "d", "e", "f", "g", "h", "i",
       "j", "k", "l", "m", "n", "o", "p", "q", "r", "s", "t", "u", "v", "w",
       "x", "y", "z", "{", "}" >>

Digits == <<"0", "1", "2", "3", "4", "5", "6", "7", "8", "9">>

IsDigit(c) == \E d \in 1..Len(Digits) : Digits[d] = c

DigitVal(c) == (CHOOSE d \in 1..Len(Digits) : Digits[d] = c) - 1

CharRank(c) == CHOOSE r \in 1..Len(Alphabet) : Alphabet[r] = c

\* Lexicographic order of two texts.
RECURSIVE TextLess(_, _)
TextLess(a, b) ==
    IF b = <<>> THEN FALSE
    ELSE IF a = <<>> THEN TRUE
    ELSE IF a[1] = b[1] THEN TextLess(Tail(a), Tail(b))
    ELSE CharRank(a[1]) < CharRank(b[1])

\* ------------------------------------------------------ serde_json::Value

JNull == [t |-> "null"]
JBool(b) == [t |-> "bool", b |-> b]
JNum(n) == [t |-> "num", n |-> n]
JStr(s) == [t |-> "str", s |-> s]
JArr(a) == [t |-> "arr", a |-> a]
JObj(o) == [t |-> "obj", o |-> o]

\* json!({ k: v })
Member(k, v) == (k :> v)

\* The keys of a Map in iteration order.
RECURSIVE SortedKeys(_)
SortedKeys(ks) ==
    IF ks = {} THEN <<>>
    ELSE LET least == CHOOSE k \in ks : \A other \in ks \ {k} : TextLess(k, other)
         IN  <<least>> \o SortedKeys(ks \ {least})

\* u64 as decimal digits.
RECURSIVE NatToChars(_)
NatToChars(n) ==
    IF n < 10 THEN <<Digits[n + 1]>>
    ELSE NatToChars(n \div 10) \o <<Digits[(n % 10) + 1]>>

\* The escapes serde_json writes inside a string literal.
RECURSIVE EscapeText(_)
EscapeText(s) ==
    IF s = <<>> THEN <<>>
    ELSE LET c == s[1]
             e == IF c = Q THEN <<BS, Q>>
                  ELSE IF c = BS THEN <<BS, BS>>
                  ELSE IF c = NL THEN <<BS, "n">>
                  ELSE <<c>>
         IN  e \o EscapeText(Tail(s))

\* Value::to_string(): compact JSON text.
RECURSIVE to_string(_)
RECURSIVE ElemsToString(_, _)
RECURSIVE MembersToString(_, _, _)

to_string(v) ==
    CASE v.t = "null" -> <<"n", "u", "l", "l">>
      [] v.t = "bool" -> IF v.b THEN <<"t", "r", "u", "e">>
                         ELSE <<"f", "a", "l", "s", "e">>
      [] v.t = "num" -> NatToChars(v.n)
      [] v.t = "str" -> <<Q>> \o EscapeText(v.s) \o <<Q>>
      [] v.t = "arr" -> <<"[">> \o ElemsToString(v.a, 1) \o <<"]">>
      [] v.t = "obj" ->
            <<"{">> \o MembersToString(v.o, SortedKeys(DOMAIN v.o), 1) \o <<"}">>

\* The elements of an array from the i-th on, separated by commas.
ElemsToString(a, i) ==
    IF i > Len(a) THEN <<>>
    ELSE (IF i > 1 THEN <<",">> ELSE <<>>)
         \o to_string(a[i]) \o ElemsToString(a, i + 1)

\* The members of an object from the i-th key on, separated by commas.
MembersToString(o, keys, i) ==
    IF i > Len(keys) THEN <<>>
    ELSE (IF i > 1 THEN <<",">> ELSE <<>>)
         \o <<Q>> \o EscapeText(keys[i]) \o <<Q, ":">>
         \o to_string(o[keys[i]]) \o MembersToString(o, keys, i + 1)

\* ------------------------------------------------ serde_json::from_str

\* A parse step returns [ok, v, i]: the value read and the next position.
ParseFail == [ok |-> FALSE]
Parsed(v, i) == [ok |-> TRUE, v |-> v, i |-> i]

RECURSIVE SkipWs(_, _)
SkipWs(s, i) ==
    IF i <= Len(s) /\ s[i] \in {SP, NL} THEN SkipWs(s, i + 1) ELSE i

ParseLit(s, i, lit, v) ==
    IF i + Len(lit) - 1 <= Len(s) /\ SubSeq(s, i, i + Len(lit) - 1) = lit
    THEN Parsed(v, i + Len(lit))
    ELSE ParseFail

\* The characters of a string literal, s[i] being the first one after the
\* opening quote.
RECURSIVE ParseText(_, _, _)
ParseText(s, i, acc) ==
    IF i > Len(s) THEN ParseFail
    ELSE IF s[i] = Q THEN Parsed(acc, i + 1)
    ELSE IF s[i] = NL THEN ParseFail
    ELSE IF s[i] = BS THEN
        IF i + 1 > Len(s) THEN ParseFail
        ELSE IF s[i + 1] = Q THEN ParseText(s, i + 2, Append(acc, Q))
        ELSE IF s[i + 1] = BS THEN ParseText(s, i + 2, Append(acc, BS))
        ELSE IF s[i + 1] = "n" THEN ParseText(s, i + 2, Append(acc, NL))
        ELSE ParseFail
    ELSE ParseText(s, i + 1, Append(acc, s[i]))

RECURSIVE ParseDigits(_, _, _)
ParseDigits(s, i, n) ==
    IF i <= Len(s) /\ IsDigit(s[i])
    THEN ParseDigits(s, i + 1, n * 10 + DigitVal(s[i]))
    ELSE Parsed(JNum(n), i)

\* A number: no digit may follow a leading 0.
ParseNumber(s, i) ==
    IF s[i] = "0"
    THEN IF i + 1 <= Len(s) /\ IsDigit(s[i + 1]) THEN ParseFail
         ELSE Parsed(JNum(0), i + 1)
    ELSE ParseDigits(s, i, 0)

RECURSIVE ParseValue(_, _)
RECURSIVE ParseElems(_, _, _)
RECURSIVE ParseMembers(_, _, _)

ParseValue(s, i0) ==
    LET i == SkipWs(s, i0) IN
    IF i > Len(s) THEN ParseFail
    ELSE CASE s[i] = "n" -> ParseLit(s, i, <<"n", "u", "l", "l">>, JNull)
           [] s[i] = "t" -> ParseLit(s, i, <<"t", "r", "u", "e">>, JBool(TRUE))
           [] s[i] = "f" -> ParseLit(s, i, <<"f", "a", "l", "s", "e">>, JBool(FALSE))
           [] s[i] = Q ->
                LET r == ParseText(s, i + 1, <<>>)
                IN  IF r.ok THEN Parsed(JStr(r.v), r.i) ELSE ParseFail
           [] s[i] = "[" ->
                LET j == SkipWs(s, i + 1)
                IN  IF j <= Len(s) /\ s[j] = "]" THEN Parsed(JArr(<<>>), j + 1)
                    ELSE ParseElems(s, j, <<>>)
           [] s[i] = "{" ->
                LET j == SkipWs(s, i + 1)
                IN  IF j <= Len(s) /\ s[j] = "}" THEN Parsed(JObj(<<>>), j + 1)
                    ELSE ParseMembers(s, j, <<>>)
           [] IsDigit(s[i]) -> ParseNumber(s, i)
           [] OTHER -> ParseFail

\* The elements of an array after "[" or ",".
ParseElems(s, i, acc) ==
    LET r == ParseValue(s, i) IN
    IF ~r.ok THEN ParseFail
    ELSE LET j == SkipWs(s, r.i) IN
         IF j > Len(s) THEN ParseFail
         ELSE IF s[j] = "," THEN ParseElems(s, j + 1, Append(acc, r.v))
         ELSE IF s[j] = "]" THEN Parsed(JArr(Append(acc, r.v)), j + 1)
         ELSE ParseFail

\* The members of an object after "{" or ",": a later duplicate key
\* replaces the earlier one (Map::insert).
ParseMembers(s, i0, acc) ==
    LET i == SkipWs(s, i0) IN
    IF i > Len(s) \/ s[i] # Q THEN ParseFail
    ELSE LET k == ParseText(s, i + 1, <<>>) IN
         IF ~k.ok THEN ParseFail
         ELSE LET c == SkipWs(s, k.i) IN
              IF c > Len(s) \/ s[c] # ":" THEN ParseFail
              ELSE LET r == ParseValue(s, c + 1) IN
                   IF ~r.ok THEN ParseFail
                   ELSE LET j == SkipWs(s, r.i)
                            map == [key \in (DOMAIN acc) \cup {k.v} |->
                                       IF key = k.v THEN r.v ELSE acc[key]]
                        IN  IF j > Len(s) THEN ParseFail
                            ELSE IF s[j] = "," THEN ParseMembers(s, j + 1, map)
                            ELSE IF s[j] = "}" THEN Parsed(JObj(map), j + 1)
                            ELSE ParseFail

\* serde_json::from_str::<Value>: one value, then only white space.
from_str(s) ==
    LET r == ParseValue(s, 1) IN
    IF r.ok /\ SkipWs(s, r.i) > Len(s)
    THEN Ok(r.v)
    ELSE Err([kind |-> "SerdeJson"])

\* ---------------------------------------------- literal texts of the code

T_role == <<"r", "o", "l", "e">>
T_content == <<"c", "o", "n", "t", "e", "n", "t">>
T_system == <<"s", "y", "s", "t", "e", "m">>
T_user == <<"u", "s", "e", "r">>
T_assistant == <<"a", "s", "s", "i", "s", "t", "a", "n", "t">>
T_tool == <<"t", "o", "o", "l">>
T_model == <<"m", "o", "d", "e", "l">>
T_tool_calls == <<"t", "o", "o", "l", "_", "c", "a", "l", "l", "s">>
T_tool_call_id ==
    << "t", "o", "o", "l", "_", "c",
       "a", "l", "l", "_", "i", "d" >>
T_name == <<"n", "a", "m", "e">>
T_id == <<"i", "d">>
T_type == <<"t", "y", "p", "e">>
T_function == <<"f", "u", "n", "c", "t", "i", "o", "n">>
T_arguments == <<"a", "r", "g", "u", "m", "e", "n", "t", "s">>
T_description == <<"d", "e", "s", "c", "r", "i", "p", "t", "i", "o", "n">>
T_messages == <<"m", "e", "s", "s", "a", "g", "e", "s">>
T_tools == <<"t", "o", "o", "l", "s">>
T_stream == <<"s", "t", "r", "e", "a", "m">>
T_choices == <<"c", "h", "o", "i", "c", "e", "s">>
T_finish_reason ==
    << "f", "i", "n", "i", "s", "h",
       "_", "r", "e", "a", "s", "o", "n" >>
T_message == <<"m", "e", "s", "s", "a", "g", "e">>
T_stop == <<"s", "t", "o", "p">>
T_length == <<"l", "e", "n", "g", "t", "h">>
T_usage == <<"u", "s", "a", "g", "e">>
T_error == <<"e", "r", "r", "o", "r">>
T_candidates == <<"c", "a", "n", "d", "i", "d", "a", "t", "e", "s">>
T_parts == <<"p", "a", "r", "t", "s">>
T_text == <<"t", "e", "x", "t">>
T_contents == <<"c", "o", "n", "t", "e", "n", "t", "s">>
T_temperature == <<"t", "e", "m", "p", "e", "r", "a", "t", "u", "r", "e">>
T_max_tokens == <<"m", "a", "x", "_", "t", "o", "k", "e", "n", "s">>
T_top_p == <<"t", "o", "p", "_", "p">>
T_response_format ==
    << "r", "e", "s", "p", "o", "n", "s",
       "e", "_", "f", "o", "r", "m", "a", "t" >>
T_json_object == <<"j", "s", "o", "n", "_", "o", "b", "j", "e", "c", "t">>
T_stream_options ==
    << "s", "t", "r", "e", "a", "m", "_",
       "o", "p", "t", "i", "o", "n", "s" >>
T_include_usage ==
    << "i", "n", "c", "l", "u", "d",
       "e", "_", "u", "s", "a", "g", "e" >>
T_systemInstruction ==
    << "s", "y", "s", "t", "e", "m", "I", "n",
       "s", "t", "r", "u", "c", "t", "i", "o", "n" >>
T_generationConfig ==
    << "g", "e", "n", "e", "r", "a", "t", "i",
       "o", "n", "C", "o", "n", "f", "i", "g" >>
T_maxOutputTokens ==
    << "m", "a", "x", "O", "u", "t", "p",
       "u", "t", "T", "o", "k", "e", "n", "s" >>
T_topP == <<"t", "o", "p", "P">>

T_Authorization ==
    << "A", "u", "t", "h", "o", "r",
       "i", "z", "a", "t", "i", "o", "n" >>
T_Bearer == <<"B", "e", "a", "r", "e", "r", " ">>
T_x_api_key == <<"x", "-", "a", "p", "i", "-", "k", "e", "y">>
T_anthropic_version ==
    << "a", "n", "t", "h", "r", "o", "p", "i",
       "c", "-", "v", "e", "r", "s", "i", "o", "n" >>
ANTRHOPIC_VERSION == <<"2", "0", "2", "3", "-", "0", "6", "-", "0", "1">>

T_prompt_tokens ==
    << "p", "r", "o", "m", "p", "t",
       "_", "t", "o", "k", "e", "n", "s" >>
T_completion_tokens ==
    << "c", "o", "m", "p", "l", "e", "t", "i",
       "o", "n", "_", "t", "o", "k", "e", "n", "s" >>
T_total_tokens ==
    << "t", "o", "t", "a", "l", "_",
       "t", "o", "k", "e", "n", "s" >>
T_promptTokenCount ==
    << "p", "r", "o", "m", "p", "t", "T", "o",
       "k", "e", "n", "C", "o", "u", "n", "t" >>
T_candidatesTokenCount ==
    << "c", "a", "n", "d", "i", "d", "a", "t", "e", "s",
       "T", "o", "k", "e", "n", "C", "o", "u", "n", "t" >>
T_totalTokenCount ==
    << "t", "o", "t", "a", "l", "T", "o",
       "k", "e", "n", "C", "o", "u", "n", "t" >>
T_input_tokens ==
    << "i", "n", "p", "u", "t", "_", "t", "o", "k", "e", "n", "s" >>
T_output_tokens ==
    << "o", "u", "t", "p", "u", "t", "_", "t", "o", "k", "e", "n", "s" >>
T_parameters == <<"p", "a", "r", "a", "m", "e", "t", "e", "r", "s">>
T_properties == <<"p", "r", "o", "p", "e", "r", "t", "i", "e", "s">>
T_required == <<"r", "e", "q", "u", "i", "r", "e", "d">>
T_definitions == <<"d", "e", "f", "i", "n", "i", "t", "i", "o", "n", "s">>
T_enum == <<"e", "n", "u", "m">>
T_ref == <<"$", "r", "e", "f">>
T_allOf == <<"a", "l", "l", "O", "f">>
T_anyOf == <<"a", "n", "y", "O", "f">>
T_object == <<"o", "b", "j", "e", "c", "t">>
T_string == <<"s", "t", "r", "i", "n", "g">>
T_integer == <<"i", "n", "t", "e", "g", "e", "r">>
T_format == <<"f", "o", "r", "m", "a", "t">>
T_int32 == <<"i", "n", "t", "3", "2">>
T_null == <<"n", "u", "l", "l">>
T_schema == <<"$", "s", "c", "h", "e", "m", "a">>
T_title == <<"t", "i", "t", "l", "e">>
T_draft07 ==
    << "h", "t", "t", "p", ":", "/", "/", "j", "s", "o", "n", "-", "s", "c",
       "h", "e", "m", "a", ".", "o", "r", "g", "/", "d", "r", "a", "f", "t",
       "-", "0", "7", "/", "s", "c", "h", "e", "m", "a", "#" >>
T_definitions_path ==
    << "#", "/", "d", "e", "f", "i", "n", "i", "t", "i", "o", "n", "s", "/" >>
T_delta == <<"d", "e", "l", "t", "a">>
T_usageMetadata ==
    << "u", "s", "a", "g", "e", "M",
       "e", "t", "a", "d", "a", "t", "a" >>
T_0 == <<"0">>

T_Error_during ==
    << "E", "r", "r", "o", "r", SP, "d", "u", "r", "i", "n", "g", SP, "'" >>
T_ToolCallArgsFailedSerialization ==
    << "T", "o", "o", "l", "C", "a", "l", "l", "A", "r", "g", "s", "F",
       "a", "i", "l", "e", "d", "S", "e", "r", "i", "a", "l", "i", "z",
       "a", "t", "i", "o", "n" >>
T_ToolCallFunctionFailed ==
    << "T", "o", "o", "l", "C", "a", "l", "l", "F", "u", "n", "c", "t",
       "i", "o", "n", "F", "a", "i", "l", "e", "d", "(" >>
T_SerdeJson == <<"S", "e", "r", "d", "e", "J", "s", "o", "n", "(">>
T_BotResponseIsEmpty ==
    << "B", "o", "t", "R", "e", "s", "p", "o", "n", "s", "e", "I", "s",
       "E", "m", "p", "t", "y" >>

\* ------------------------------------------------- chat/tool/tool_call.rs

\* AssistantToolCall { tool_call_id, tool_call_type, function: { fn_name,
\* fn_arguments: Option<Value> } }
AssistantToolCall(id, type, name, arguments) ==
    [tool_call_id |-> id, tool_call_type |-> type,
     function |-> [fn_name |-> name, fn_arguments |-> arguments]]

\* A String read from a Value (String::deserialize).
StringFromValue(v) ==
    IF v.t = "str" THEN Ok(v.s) ELSE Err([kind |-> "SerdeJson"])

\* A reading of the arguments that takes an unparsable text for no
\* arguments.
deserialize_json_string_Lenient(v) ==
    AndThen(StringFromValue(v),
            LAMBDA s : IF from_str(s).ok THEN Ok(Some(from_str(s).v))
                       ELSE Ok(None))

\* deserialize_json_string: the field is a string holding JSON text; the
\* text is parsed, and a text that does not parse is an error.
deserialize_json_string(v) ==
    AndThen(StringFromValue(v),
            LAMBDA s : MapOk(from_str(s), LAMBDA parsed : Some(parsed)))

\* The field `key` of a struct read from a Value: a map gives it by name
\* (other keys are ignored), a sequence of exactly `n` elements by position.
StructField(v, key, pos, n) ==
    IF v.t = "obj" /\ key \in DOMAIN v.o THEN Ok(v.o[key])
    ELSE IF v.t = "arr" /\ Len(v.a) = n THEN Ok(v.a[pos])
    ELSE Err([kind |-> "SerdeJson"])

\* #[derive(Deserialize)] AssistantToolCallFunction
AssistantToolCallFunction_from_value(v) ==
    AndThen(AndThen(StructField(v, T_name, 1, 2), StringFromValue),
            LAMBDA name :
                MapOk(AndThen(StructField(v, T_arguments, 2, 2),
                              deserialize_json_string),
                      LAMBDA arguments :
                          [fn_name |-> name, fn_arguments |-> arguments]))

\* #[derive(Deserialize)] AssistantToolCall
AssistantToolCall_from_value(v) ==
    AndThen(AndThen(StructField(v, T_id, 1, 3), StringFromValue),
            LAMBDA id :
                AndThen(AndThen(StructField(v, T_type, 2, 3), StringFromValue),
                        LAMBDA type :
                            MapOk(AndThen(StructField(v, T_function, 3, 3),
                                          AssistantToolCallFunction_from_value),
                                  LAMBDA function :
                                      [tool_call_id |-> id,
                                       tool_call_type |-> type,
                                       function |-> function])))

\* Vec<T> from the results of reading its elements: the first error, if any.
CollectVec(results) ==
    IF \E i \in 1..Len(results) : ~results[i].ok
    THEN results[CHOOSE i \in 1..Len(results) :
                     /\ ~results[i].ok
                     /\ \A j \in 1..(i - 1) : results[j].ok]
    ELSE Ok([i \in 1..Len(results) |-> results[i].v])

\* A reading of the tool calls that keeps the first one only.
tool_calls_from_value_FirstOnly(v) ==
    IF v.t = "null" THEN Ok(None)
    ELSE IF v.t # "arr" THEN Err([kind |-> "SerdeJson"])
    ELSE MapOk(CollectVec([i \in 1..(IF Len(v.a) = 0 THEN 0 ELSE 1) |->
                              AssistantToolCall_from_value(v.a[i])]),
               LAMBDA calls : Some(calls))

\* serde_json::from_value::<Option<Vec<AssistantToolCall>>>
tool_calls_from_value(v) ==
    IF v.t = "null" THEN Ok(None)
    ELSE IF v.t # "arr" THEN Err([kind |-> "SerdeJson"])
    ELSE MapOk(CollectVec([i \in 1..Len(v.a) |->
                              AssistantToolCall_from_value(v.a[i])]),
               LAMBDA calls : Some(calls))

\* ------------------------------------------------------- chat/chat_req.rs

\* ChatMessage::system
system(content) == [role |-> "System", content |-> content]

\* ChatMessage::user
user(content) == [role |-> "User", content |-> content, extra |-> None]

\* ChatMessage::assistant
assistant(content) == [role |-> "Assistant", content |-> content, extra |-> None]

\* ChatMessage::assistant_with_extra, the extra being MessageExtra::ToolCall
assistant_with_extra(content, toolcall_v) ==
    [role |-> "Assistant", content |-> content, extra |-> Some(toolcall_v)]

\* ChatMessage::tool_response
tool_response(tool_call_id, tool_name, tool_result) ==
    [role |-> "ToolResponse", tool_call_id |-> tool_call_id,
     tool_name |-> tool_name, tool_result |-> tool_result]

\* impl From<Vec<AssistantToolCall>> for ChatMessage
from_tool_calls(atc_v) == assistant_with_extra(<<>>, atc_v)

\* ChatRequest::default
ChatRequest_default == [messages |-> <<>>, tools |-> None]

\* ChatRequest::append_message
append_message(req, msg) == [req EXCEPT !.messages = Append(@, msg)]

\* ChatRequest::append_tool
append_tool(req, tool) ==
    [req EXCEPT !.tools = Some(Append(IF @.some THEN @.v ELSE <<>>, tool))]

\* ChatRequest::iter_systems: the System contents, in message order.
iter_systems(req) ==
    LET systems == SelectSeq(req.messages, LAMBDA m : m.role = "System")
    IN  [i \in 1..Len(systems) |-> systems[i].content]

\* A separator of one line feed where the code writes a blank line.
Separator_SingleLineFeed(systems_content) ==
    IF systems_content # <<>> THEN <<NL>> ELSE <<>>

\* A separator written whatever the accumulated text is.
Separator_Unconditional(systems_content) == <<NL, NL>>

\* combine_systems, "add eventual separator": what is pushed before the next
\* System content.
Separator(systems_content) ==
    IF ends_with(systems_content, NL) THEN <<NL>>
    ELSE IF systems_content # <<>> THEN <<NL, NL>>
    ELSE <<>>

\* combine_systems, the loop: `systems` is the accumulator, `rest` the
\* System contents still to push.
RECURSIVE CombineLoop(_, _)
CombineLoop(systems, rest) ==
    IF rest = <<>> THEN systems
    ELSE LET systems_content == IF systems.some THEN systems.v ELSE <<>>
         IN  CombineLoop(Some(systems_content \o Separator(systems_content)
                              \o Head(rest)),
                         Tail(rest))

\* combine_systems with an accumulator that starts as an empty text.
combine_systems_FromEmptyText(req) == CombineLoop(Some(<<>>), iter_systems(req))

\* ChatRequest::combine_systems
combine_systems(req) == CombineLoop(None, iter_systems(req))

\* ------------------------------------------------------- chat/chat_res.rs

\* ChatResponsePayload::Content(Option<MessageContent>)
Content(opt_mc) == [variant |-> "Content", content |-> opt_mc]

\* ChatResponsePayload::ToolCall(Option<Vec<AssistantToolCall>>)
ToolCall(opt_tc) == [variant |-> "ToolCall", tool_calls |-> opt_tc]

\* MetaUsage
MetaUsage(input_tokens, output_tokens, total_tokens) ==
    [input_tokens |-> input_tokens, output_tokens |-> output_tokens,
     total_tokens |-> total_tokens]

\* MetaUsage::default
MetaUsage_default == MetaUsage(None, None, None)

\* ChatResponse { payload, usage }
ChatResponse(payload, usage) == [payload |-> payload, usage |-> usage]

\* ------------------------------------------------- chat/tool/tool_invoke.rs

\* Display of tool_invoke::Error, which writes its Debug form.
ErrorToString(e) ==
    CASE e.kind = "ToolCallArgsFailedSerialization" ->
            T_ToolCallArgsFailedSerialization
      [] e.kind = "ToolCallFunctionFailed" ->
            T_ToolCallFunctionFailed \o <<Q>> \o EscapeText(e.detail) \o <<Q, ")">>
      [] e.kind = "SerdeJson" -> T_SerdeJson \o <<")">>

\* format!("Error during '{}' {}", fn_name, e)
ErrorDuring(fn_name, e) == T_Error_during \o fn_name \o <<"'", SP>> \o e

\* An invoke_no_args that returns the error's own text.
invoke_no_args_BareError(returned, fn_name) ==
    IF returned.ok THEN returned.v ELSE returned.err

\* invoke_no_args, given what func() returned.
invoke_no_args(returned, fn_name) ==
    IF returned.ok THEN returned.v ELSE ErrorDuring(fn_name, returned.err)

\* examples/c07: serde_json::from_value::<SetTemperatureParams>
SetTemperatureParams_from_value(v) ==
    MapOk(AndThen(StructField(v, T_temperature, 1, 1), StringFromValue),
          LAMBDA text : [temperature |-> text])

\* examples/c07: get_current_temperature
get_current_temperature(temp) == [returned |-> Ok(temp), temp |-> temp]

\* examples/c07: set_current_temperature
set_current_temperature(params, temp) ==
    [returned |-> Ok(params.temperature), temp |-> params.temperature]

\* A native function that fails with the error e and changes nothing.
failing_function(e, temp) == [returned |-> Err(e), temp |-> temp]

\* func(), for the no-argument native functions of the model.
CallNoArgs(func, temp) ==
    IF func.name = "get_current_temperature" THEN get_current_temperature(temp)
    ELSE failing_function(func.err, temp)

\* func(args), for the one-argument native functions of the model.
CallWithArgs(func, params, temp) ==
    IF func.name = "set_current_temperature"
    THEN set_current_temperature(params, temp)
    ELSE failing_function(func.err, temp)

\* A chain that calls func on default parameters when the arguments could
\* not be deserialized.
Invoked_CallOnFailure(func, params, fn_name, temp) ==
    LET called == CallWithArgs(func,
                               IF params.ok THEN params.v
                               ELSE [temperature |-> <<>>],
                               temp)
    IN  [result |-> IF ~params.ok THEN params
                    ELSE IF called.returned.ok THEN called.returned
                    ELSE Err([kind |-> "ToolCallFunctionFailed",
                              detail |-> called.returned.err]),
         temp |-> called.temp,
         called |-> TRUE,
         calls |-> 1]

\* What invoke_with_args has after its and_then chain: the Result, the
\* thermostat func left and whether func was called.
Invoked(func, params, fn_name, temp) ==
    IF ~params.ok
    THEN [result |-> params, temp |-> temp, called |-> FALSE, calls |-> 0]
    ELSE LET called == CallWithArgs(func, params.v, temp)
         IN  [result |-> IF called.returned.ok THEN called.returned
                         ELSE Err([kind |-> "ToolCallFunctionFailed",
                                   detail |-> called.returned.err]),
              temp |-> called.temp,
              called |-> TRUE,
              calls |-> 1]

\* A conversion that names the function only when func itself failed.
InvokedToString_FuncFailureOnly(invoked, fn_name) ==
    [ret |-> IF invoked.result.ok THEN invoked.result.v
             ELSE IF invoked.called
             THEN ErrorDuring(fn_name, ErrorToString(invoked.result.err))
             ELSE ErrorToString(invoked.result.err),
     temp |-> invoked.temp,
     called |-> invoked.called,
     calls |-> invoked.calls]

\* map_or_else(|e| format!("Error during '{}' {}", fn_name, e), |val| val)
InvokedToString(invoked, fn_name) ==
    [ret |-> IF invoked.result.ok THEN invoked.result.v
             ELSE ErrorDuring(fn_name, ErrorToString(invoked.result.err)),
     temp |-> invoked.temp,
     called |-> invoked.called,
     calls |-> invoked.calls]

\* invoke_with_args::<_, SetTemperatureParams, _>: the string it returns,
\* the thermostat it leaves, and whether func was called.
invoke_with_args(func, args, fn_name, temp) ==
    InvokedToString(
        Invoked(func,
                AndThen(IF args.some THEN Ok(args.v)
                        ELSE Err([kind |-> "ToolCallArgsFailedSerialization"]),
                        SetTemperatureParams_from_value),
                fn_name, temp),
        fn_name)

\* ------------------------------------------------- chat/tool/tool_schema.rs

\* schema_for_fn_no_param
schema_for_fn_no_param(fn_name, fn_desc) ==
    JObj(Member(T_type, JStr(T_function))
         @@ Member(T_function,
                   JObj(Member(T_name, JStr(fn_name))
                        @@ Member(T_description, JStr(fn_desc)))))

\* A JSON array of strings.
StringsArr(texts) == JArr([i \in 1..Len(texts) |-> JStr(texts[i])])

\* ------------------------------------------- support: Value and credentials

\* Map::insert
Put(o, k, v) == [key \in (DOMAIN o) \cup {k} |-> IF key = k THEN v ELSE o[key]]

\* ValueExt::x_insert(name_or_pointer, value): sets the member a name, or
\* the path of a pointer, designates, creating the objects on the way.
RECURSIVE x_insert(_, _, _)
x_insert(value, path, v) ==
    IF Len(path) = 1 THEN JObj(Put(value.o, path[1], v))
    ELSE LET child == IF path[1] \in DOMAIN value.o /\ value.o[path[1]].t = "obj"
                      THEN value.o[path[1]]
                      ELSE JObj(<<>>)
         IN  JObj(Put(value.o, path[1], x_insert(child, Tail(path), v)))

\* Value::pointer: the value a path of tokens designates; a token is a key
\* of an object or the index of an array element.
RECURSIVE pointer(_, _)
pointer(value, path) ==
    IF path = <<>> THEN Some(value)
    ELSE IF value.t = "obj" /\ path[1] \in DOMAIN value.o
    THEN pointer(value.o[path[1]], Tail(path))
    ELSE IF /\ value.t = "arr"
            /\ Len(path[1]) = 1
            /\ IsDigit(path[1][1])
            /\ DigitVal(path[1][1]) < Len(value.a)
    THEN pointer(value.a[DigitVal(path[1][1]) + 1], Tail(path))
    ELSE None

PropertyNotFound == Err([kind |-> "XValue"])

\* Option::ok_or(PropertyNotFound)
FoundOr(found) == IF found.some THEN Ok(found.v) ELSE PropertyNotFound

\* ValueExt::x_get / x_take::<Value>: the value at the path; a shape error
\* when the path is absent.
x_take(value, path) == FoundOr(pointer(value, path))

\* Option<Value> of what the pointer found: None for null.
NullIsNone(found) ==
    IF found.some /\ found.v.t # "null" THEN Ok(Some(found.v)) ELSE Ok(None)

\* ValueExt::x_get / x_take::<Option<Value>>: no value when the path is
\* absent or holds null.
x_take_option(value, path) == NullIsNone(pointer(value, path))

\* serde_json::from_value::<String>
AsString(v) == IF v.t = "str" THEN Ok(v.s) ELSE PropertyNotFound

\* ValueExt::x_get / x_take::<String>
x_take_string(value, path) == AndThen(x_take(value, path), AsString)

\* serde_json::from_value::<Option<String>>
AsOptionString(opt) ==
    IF ~opt.some THEN Ok(None) ELSE MapOk(AsString(opt.v), LAMBDA text : Some(text))

\* ValueExt::x_get / x_take::<Option<String>>
x_get_option_string(value, path) ==
    AndThen(x_take_option(value, path), AsOptionString)

\* serde_json::from_value::<Vec<Value>>
AsVec(v) == IF v.t = "arr" THEN Ok(v.a) ELSE PropertyNotFound

\* ValueExt::x_take::<Vec<Value>>
x_take_vec(value, path) == AndThen(x_take(value, path), AsVec)

\* serde_json::from_value::<i32>(..).ok()
AsI32Ok(found) ==
    IF found.some /\ found.v.t = "num" THEN Some(found.v.n) ELSE None

\* ValueExt::x_take::<i32>(name).ok()
x_take_i32_ok(value, name) == AsI32Ok(pointer(value, <<name>>))

\* payload.x_insert(path, value) when the condition holds.
InsertIf(payload, condition, path, v) ==
    IF condition THEN x_insert(payload, path, v) ELSE payload

\* payload.x_insert(path, n) when the option is Some(n).
InsertSome(payload, path, opt) ==
    IF opt.some THEN x_insert(payload, path, JNum(opt.v)) ELSE payload

\* get_api_key_resolver: the credential of the call, or the configuration
\* error when none is configured.
get_api_key_resolver(model_info, config_set) ==
    IF config_set.api_key.some THEN Ok(config_set.api_key.v)
    ELSE Err([kind |-> "ApiKeyNotFound", model_info |-> model_info])

\* [String]::join(sep)
RECURSIVE join(_, _)
join(texts, sep) ==
    IF Len(texts) = 0 THEN <<>>
    ELSE IF Len(texts) = 1 THEN texts[1]
    ELSE texts[1] \o sep \o join(Tail(texts), sep)

\* ------------------------------------------------- schemars: JsonSchema

\* The Rust types a parameter structure is made of.
TString == [kind |-> "String"]
TI32 == [kind |-> "i32"]
TOption(ty) == [kind |-> "Option", of |-> ty]
TEnum(name, variants) == [kind |-> "enum", name |-> name, variants |-> variants]

\* A field of a structure: its name, its doc comment if any, its type.
Field(name, doc, ty) == [name |-> name, doc |-> doc, ty |-> ty]

\* A structure deriving JsonSchema.
Struct(name, fields) == [name |-> name, fields |-> fields]

\* The schema of an enum of unit variants.
EnumSchema(ty) ==
    JObj(Member(T_type, JStr(T_string)) @@ Member(T_enum, StringsArr(ty.variants)))

\* Option<T>: the schema of T with "null" added to its type, or the choice
\* between it and null when it has no type of its own.
OptionSchema(inner) ==
    IF T_type \in DOMAIN inner.o
    THEN JObj(Put(inner.o, T_type, JArr(<<inner.o[T_type], JStr(T_null)>>)))
    ELSE JObj(Member(T_anyOf,
                     JArr(<<inner, JObj(Member(T_type, JStr(T_null)))>>)))

\* SchemaGenerator::subschema_for: the schema of a field's type; the schema
\* of an enum is written in place when subschemas are inlined, and referred
\* to otherwise.
RECURSIVE subschema_for(_, _)
subschema_for(ty, settings) ==
    CASE ty.kind = "String" -> JObj(Member(T_type, JStr(T_string)))
      [] ty.kind = "i32" ->
            JObj(Member(T_type, JStr(T_integer)) @@ Member(T_format, JStr(T_int32)))
      [] ty.kind = "Option" -> OptionSchema(subschema_for(ty.of, settings))
      [] ty.kind = "enum" ->
            IF settings.inline_subschemas THEN EnumSchema(ty)
            ELSE JObj(Member(T_ref, JStr(T_definitions_path \o ty.name)))

\* The doc comment of a field as the description of its schema; a reference
\* is wrapped in allOf to carry it.
apply_metadata(schema, doc) ==
    IF ~doc.some THEN schema
    ELSE IF T_ref \in DOMAIN schema.o
    THEN JObj(Member(T_description, JStr(doc.v)) @@ Member(T_allOf, JArr(<<schema>>)))
    ELSE JObj(Put(schema.o, T_description, JStr(doc.v)))

\* The field of a name.
FieldNamed(fields, name) ==
    fields[CHOOSE i \in 1..Len(fields) : fields[i].name = name]

\* `properties`: the schema of every field under its name.
PropertiesOf(fields, settings) ==
    [name \in { fields[i].name : i \in 1..Len(fields) } |->
        apply_metadata(subschema_for(FieldNamed(fields, name).ty, settings),
                       FieldNamed(fields, name).doc)]

\* `required`: the names of the fields that are not an Option, in order.
RequiredOf(fields) ==
    SortedKeys({ fields[i].name : i \in { j \in 1..Len(fields) :
                                            fields[j].ty.kind # "Option" } })

\* The enums among the types of the fields.
EnumsOf(fields) ==
    { fields[i].ty : i \in { j \in 1..Len(fields) : fields[j].ty.kind = "enum" } }

\* `definitions`: the schema of every enum referred to, under its name.
DefinitionsOf(fields) ==
    [name \in { ty.name : ty \in EnumsOf(fields) } |->
        EnumSchema(CHOOSE ty \in EnumsOf(fields) : ty.name = name)]

\* A member that is written only when its collection is not empty.
NonEmptyMember(k, is_empty, v) == IF is_empty THEN <<>> ELSE Member(k, v)

\* SchemaGenerator::into_root_schema_for::<TParam>, as JSON: empty
\* `properties`, `required` and `definitions` are not written.
into_root_schema_for(TParam, settings) ==
    JObj(Member(T_schema, JStr(T_draft07))
         @@ Member(T_title, JStr(TParam.name))
         @@ Member(T_type, JStr(T_object))
         @@ NonEmptyMember(T_properties, TParam.fields = <<>>,
                           JObj(PropertiesOf(TParam.fields, settings)))
         @@ NonEmptyMember(T_required, RequiredOf(TParam.fields) = <<>>,
                           StringsArr(RequiredOf(TParam.fields)))
         @@ NonEmptyMember(T_definitions,
                           settings.inline_subschemas \/ EnumsOf(TParam.fields) = {},
                           JObj(DefinitionsOf(TParam.fields))))

\* ------------------------------------- chat/tool/tool_schema.rs, continued

\* A generator that keeps the default settings.
schema_generator_for_tool_Default == [inline_subschemas |-> FALSE]

\* schema_generator_for_tool: the settings of the generator.
schema_generator_for_tool == [inline_subschemas |-> TRUE]

\* Result::unwrap_or(Value::Null)
unwrap_or_null(result) == IF result.ok THEN result.v ELSE JNull

\* json!({"type": "object", "properties": .., "required": ..})
ParametersOf(param_schema_json) ==
    JObj(Member(T_type, JStr(T_object))
         @@ Member(T_properties,
                   unwrap_or_null(x_take(param_schema_json, <<T_properties>>)))
         @@ Member(T_required,
                   unwrap_or_null(x_take(param_schema_json, <<T_required>>))))

\* schema_for_fn_single_param::<TParam>
schema_for_fn_single_param(TParam, fn_name, fn_desc) ==
    x_insert(schema_for_fn_no_param(fn_name, fn_desc),
             <<T_function, T_parameters>>,
             ParametersOf(into_root_schema_for(TParam, schema_generator_for_tool)))

\* ----------------------------------- adapter/adapters/openai/adapter_impl.rs

OPENAI_BASE_URL == "https://api.openai.com/v1/"

\* OpenAIAdapter::util_get_service_url
util_get_service_url(model_info, service_type, base_url) ==
    [base |-> base_url, path |-> "chat/completions"]

\* A tool_calls entry whose arguments are written as the JSON value itself.
ToolCallToJson_ArgumentsAsValue(atc) ==
    JObj(Member(T_id, JStr(atc.tool_call_id))
         @@ Member(T_type, JStr(atc.tool_call_type))
         @@ Member(T_function,
                   JObj(Member(T_name, JStr(atc.function.fn_name))
                        @@ Member(T_arguments,
                                  IF atc.function.fn_arguments.some
                                  THEN atc.function.fn_arguments.v
                                  ELSE JStr(<<>>)))))

\* The tool_calls entry of one AssistantToolCall: its arguments are written
\* as a string (into_openai_request_parts, the inner loop).
ToolCallToJson(atc) ==
    LET func_args_string == IF atc.function.fn_arguments.some
                            THEN to_string(atc.function.fn_arguments.v)
                            ELSE <<>>
    IN  JObj(Member(T_id, JStr(atc.tool_call_id))
             @@ Member(T_type, JStr(atc.tool_call_type))
             @@ Member(T_function,
                       JObj(Member(T_name, JStr(atc.function.fn_name))
                            @@ Member(T_arguments, JStr(func_args_string)))))

\* The message the OpenAI translator emits for one ChatMessage other than
\* System.
OpenAIMessage(msg) ==
    CASE msg.role = "Assistant" ->
            IF msg.extra.some
            THEN JObj(Member(T_role, JStr(T_assistant))
                      @@ Member(T_content, JStr(msg.content))
                      @@ Member(T_tool_calls,
                                JArr([i \in 1..Len(msg.extra.v) |->
                                         ToolCallToJson(msg.extra.v[i])])))
            ELSE JObj(Member(T_role, JStr(T_assistant))
                      @@ Member(T_content, JStr(msg.content)))
      [] msg.role = "User" ->
            JObj(Member(T_role, JStr(T_user))
                 @@ Member(T_content, JStr(msg.content)))
      [] msg.role = "ToolResponse" ->
            JObj(Member(T_role, JStr(T_tool))
                 @@ Member(T_tool_call_id, JStr(msg.tool_call_id))
                 @@ Member(T_name, JStr(msg.tool_name))
                 @@ Member(T_content, JStr(msg.tool_result)))

\* into_openai_request_parts, the loop over chat_req.messages from the i-th
\* message on.
RECURSIVE OpenAILoop(_, _, _, _, _)
OpenAILoop(ollama_variant, req, i, system_messages, messages) ==
    IF i > Len(req.messages)
    THEN [system_messages |-> system_messages, messages |-> messages]
    ELSE LET msg == req.messages[i] IN
         IF msg.role = "System"
         THEN IF ollama_variant
              THEN OpenAILoop(ollama_variant, req, i + 1,
                              Append(system_messages, msg.content), messages)
              ELSE OpenAILoop(ollama_variant, req, i + 1, system_messages,
                              Append(messages,
                                     JObj(Member(T_role, JStr(T_system))
                                          @@ Member(T_content, JStr(msg.content)))))
         ELSE OpenAILoop(ollama_variant, req, i + 1, system_messages,
                         Append(messages, OpenAIMessage(msg)))

\* A joined system message that is pushed last.
OpenAIInsertSystem_Last(done) ==
    IF done.system_messages # <<>>
    THEN done.messages
         \o << JObj(Member(T_role, JStr(T_system))
                    @@ Member(T_content, JStr(join(done.system_messages, <<NL>>)))) >>
    ELSE done.messages

\* into_openai_request_parts, after the loop: the System contents set
\* aside are joined into one message, inserted first.
OpenAIInsertSystem(done) ==
    IF done.system_messages # <<>>
    THEN << JObj(Member(T_role, JStr(T_system))
                 @@ Member(T_content, JStr(join(done.system_messages, <<NL>>)))) >>
         \o done.messages
    ELSE done.messages

\* OpenAIAdapter::into_openai_request_parts
into_openai_request_parts(model_info, req) ==
    Ok([messages |-> OpenAIInsertSystem(
                         OpenAILoop(model_info.adapter_kind = "Ollama", req, 1,
                                    <<>>, <<>>)),
        tools |-> req.tools])

\* util_to_web_request_data, "Build the basic payload"
OpenAIPayload(model_name, parts, stream) ==
    JObj(Member(T_model, JStr(model_name))
         @@ Member(T_messages, JArr(parts.messages))
         @@ Member(T_tools,
                   IF parts.tools.some THEN JArr(parts.tools.v) ELSE JNull)
         @@ Member(T_stream, JBool(stream)))

\* Options that ask for the usage whenever capture_usage is set, streaming
\* or not.
OpenAIOptions_UsageWithoutStream(payload, stream, options_set) ==
    LET p1 == InsertIf(payload, options_set.json_mode = Some(TRUE),
                       <<T_response_format>>,
                       JObj(Member(T_type, JStr(T_json_object))))
        p2 == InsertIf(p1, unwrap_or(options_set.capture_usage, FALSE),
                       <<T_stream_options>>,
                       JObj(Member(T_include_usage, JBool(TRUE))))
        p3 == InsertSome(p2, <<T_temperature>>, options_set.temperature)
        p4 == InsertSome(p3, <<T_max_tokens>>, options_set.max_tokens)
    IN  InsertSome(p4, <<T_top_p>>, options_set.top_p)

\* util_to_web_request_data, "Add options" and "Add supported ChatOptions"
OpenAIOptions(payload, stream, options_set) ==
    LET p1 == InsertIf(payload, options_set.json_mode = Some(TRUE),
                       <<T_response_format>>,
                       JObj(Member(T_type, JStr(T_json_object))))
        p2 == InsertIf(p1, stream /\ unwrap_or(options_set.capture_usage, FALSE),
                       <<T_stream_options>>,
                       JObj(Member(T_include_usage, JBool(TRUE))))
        p3 == InsertSome(p2, <<T_temperature>>, options_set.temperature)
        p4 == InsertSome(p3, <<T_max_tokens>>, options_set.max_tokens)
    IN  InsertSome(p4, <<T_top_p>>, options_set.top_p)

\* OpenAIAdapter::util_to_web_request_data
util_to_web_request_data(model_info, url, req, service_type, options_set, api_key) ==
    MapOk(into_openai_request_parts(model_info, req),
          LAMBDA parts :
              [url |-> url,
               headers |-> << <<T_Authorization, T_Bearer \o api_key>> >>,
               payload |-> OpenAIOptions(
                               OpenAIPayload(model_info.model_name, parts,
                                             service_type = "ChatStream"),
                               service_type = "ChatStream", options_set)])

\* OpenAIAdapter::to_web_request_data
openai_to_web_request_data(model_info, config_set, service_type, req, options_set) ==
    AndThen(get_api_key_resolver(model_info, config_set),
            LAMBDA api_key :
                util_to_web_request_data(
                    model_info,
                    util_get_service_url(model_info, service_type, OPENAI_BASE_URL),
                    req, service_type, options_set, api_key))

\* OpenAIAdapter::into_usage
\* An into_usage that computes the total from the two counts.
openai_into_usage_Summed(usage_value) ==
    MetaUsage(x_take_i32_ok(usage_value, T_prompt_tokens),
              x_take_i32_ok(usage_value, T_completion_tokens),
              IF \/ x_take_i32_ok(usage_value, T_prompt_tokens).some
                 \/ x_take_i32_ok(usage_value, T_completion_tokens).some
              THEN Some(unwrap_or(x_take_i32_ok(usage_value, T_prompt_tokens), 0)
                        + unwrap_or(x_take_i32_ok(usage_value, T_completion_tokens), 0))
              ELSE None)

openai_into_usage(usage_value) ==
    MetaUsage(x_take_i32_ok(usage_value, T_prompt_tokens),
              x_take_i32_ok(usage_value, T_completion_tokens),
              x_take_i32_ok(usage_value, T_total_tokens))

\* body.x_take("usage").map(into_usage).unwrap_or_default()
UsageOrDefault(taken, into_usage(_)) ==
    IF taken.ok THEN into_usage(taken.v) ELSE MetaUsage_default

\* first_choice.map(|mut c| c.x_take(path)).transpose(), the taking being
\* `take`
MapTranspose(first_choice, take(_)) ==
    IF first_choice.some
    THEN MapOk(take(first_choice.v), LAMBDA taken : Some(taken))
    ELSE Ok(None)

TakeContent(choice) == x_take_string(choice, <<T_message, T_content>>)

TakeToolCalls(choice) == x_take(choice, <<T_message, T_tool_calls>>)

\* res_toolcall.unwrap(): a panic when there is no value.
Unwrap(opt) == IF opt.some THEN Ok(opt.v) ELSE Err([kind |-> "Panic"])

\* A match on finish_reason that takes every reason but "tool_calls" for a
\* stop, an absent one included.
OpenAIMatchFinishReason_StopByDefault(model_info, finish_reason, first_choice, usage) ==
    IF finish_reason.some /\ finish_reason.v = T_tool_calls
    THEN MapOk(AndThen(AndThen(MapTranspose(first_choice, TakeToolCalls), Unwrap),
                       tool_calls_from_value),
               LAMBDA tool_calls : ChatResponse(ToolCall(tool_calls), usage))
    ELSE MapOk(MapTranspose(first_choice, TakeContent),
               LAMBDA res_content : ChatResponse(Content(res_content), usage))

\* to_chat_response, the match on finish_reason.
OpenAIMatchFinishReason(model_info, finish_reason, first_choice, usage) ==
    IF ~finish_reason.some
    THEN Err([kind |-> "UnexpectedChatResponseFormat", model_info |-> model_info])
    ELSE IF finish_reason.v = T_stop
    THEN MapOk(MapTranspose(first_choice, TakeContent),
               LAMBDA res_content : ChatResponse(Content(res_content), usage))
    ELSE IF finish_reason.v = T_tool_calls
    THEN MapOk(AndThen(AndThen(MapTranspose(first_choice, TakeToolCalls), Unwrap),
                       tool_calls_from_value),
               LAMBDA tool_calls : ChatResponse(ToolCall(tool_calls), usage))
    ELSE Err([kind |-> "NeitherChatNorToolresponse", model_info |-> model_info])

\* OpenAIAdapter::to_chat_response
openai_to_chat_response(model_info, body) ==
    AndThen(x_get_option_string(body, <<T_choices, T_0, T_finish_reason>>),
            LAMBDA finish_reason :
                AndThen(x_take_option(body, <<T_choices, T_0>>),
                        LAMBDA first_choice :
                            OpenAIMatchFinishReason(
                                model_info, finish_reason, first_choice,
                                UsageOrDefault(x_take(body, <<T_usage>>),
                                               openai_into_usage))))

\* -------------------------------- adapter/adapters/anthropic/adapter_impl.rs

ANTHROPIC_BASE_URL == "https://api.anthropic.com/v1/"

MAX_TOKENS == 1024

RoleNotSupported(model_info) ==
    Err([kind |-> "MessageRoleNotSupported", model_info |-> model_info,
         role |-> "Tool"])

\* AnthropicAdapter::into_anthropic_request_parts, from the i-th message on.
RECURSIVE AnthropicLoop(_, _, _, _, _)
AnthropicLoop(model_info, req, i, systems, messages) ==
    IF i > Len(req.messages)
    THEN Ok([system |-> IF systems # <<>> THEN Some(join(systems, <<NL>>))
                        ELSE None,
             messages |-> messages])
    ELSE LET msg == req.messages[i] IN
         CASE msg.role = "System" ->
                AnthropicLoop(model_info, req, i + 1,
                              Append(systems, msg.content), messages)
           [] msg.role = "Assistant" ->
                AnthropicLoop(model_info, req, i + 1, systems,
                              Append(messages,
                                     JObj(Member(T_role, JStr(T_assistant))
                                          @@ Member(T_content, JStr(msg.content)))))
           [] msg.role = "User" ->
                AnthropicLoop(model_info, req, i + 1, systems,
                              Append(messages,
                                     JObj(Member(T_role, JStr(T_user))
                                          @@ Member(T_content, JStr(msg.content)))))
           [] msg.role = "ToolResponse" -> RoleNotSupported(model_info)

\* A translation that leaves the ToolResponse messages out.
into_anthropic_request_parts_Dropping(model_info, req) ==
    AnthropicLoop(model_info,
                  [req EXCEPT !.messages =
                      SelectSeq(@, LAMBDA m : m.role # "ToolResponse")],
                  1, <<>>, <<>>)

\* AnthropicAdapter::into_anthropic_request_parts
into_anthropic_request_parts(model_info, req) ==
    AnthropicLoop(model_info, req, 1, <<>>, <<>>)

\* A payload that carries max_tokens only when the option is set.
AnthropicPayload_OptionalMaxTokens(model_name, parts, stream, options_set) ==
    LET p0 == JObj(Member(T_model, JStr(model_name))
                   @@ Member(T_messages, JArr(parts.messages))
                   @@ Member(T_stream, JBool(stream)))
        p1 == InsertIf(p0, parts.system.some, <<T_system>>,
                       JStr(unwrap_or(parts.system, <<>>)))
        p2 == InsertSome(p1, <<T_temperature>>, options_set.temperature)
        p3 == InsertSome(p2, <<T_max_tokens>>, options_set.max_tokens)
    IN  InsertSome(p3, <<T_top_p>>, options_set.top_p)

\* to_web_request_data, the payload: the basic one, `system` when there is
\* one, and the supported ChatOptions.
AnthropicPayload(model_name, parts, stream, options_set) ==
    LET p0 == JObj(Member(T_model, JStr(model_name))
                   @@ Member(T_messages, JArr(parts.messages))
                   @@ Member(T_stream, JBool(stream)))
        p1 == InsertIf(p0, parts.system.some, <<T_system>>,
                       JStr(unwrap_or(parts.system, <<>>)))
        p2 == InsertSome(p1, <<T_temperature>>, options_set.temperature)
        p3 == x_insert(p2, <<T_max_tokens>>,
                       JNum(unwrap_or(options_set.max_tokens, MAX_TOKENS)))
    IN  InsertSome(p3, <<T_top_p>>, options_set.top_p)

\* AnthropicAdapter::to_web_request_data
anthropic_to_web_request_data(model_info, config_set, service_type, req, options_set) ==
    AndThen(get_api_key_resolver(model_info, config_set),
            LAMBDA api_key :
                MapOk(into_anthropic_request_parts(model_info, req),
                      LAMBDA parts :
                          [url |-> [base |-> ANTHROPIC_BASE_URL, path |-> "messages"],
                           headers |-> << <<T_x_api_key, api_key>>,
                                          <<T_anthropic_version, ANTRHOPIC_VERSION>> >>,
                           payload |-> AnthropicPayload(
                                           model_info.model_name, parts,
                                           service_type = "ChatStream",
                                           options_set)]))

\* The largest i32.
MaxI32 == 2147483647

\* Whether a + b leaves the range of i32.
AddOverflows(a, b) ==
    \/ a > 0 /\ b > 0 /\ a > MaxI32 - b
    \/ a < 0 /\ b < 0 /\ a < (-MaxI32 - 1) - b

\* i32 addition as the build performs it: the sum when it fits; otherwise a
\* panic with overflow checks (debug profile), the sum modulo 2^32 without
\* them (release profile).
AddI32(a, b, overflow_checks) ==
    IF ~AddOverflows(a, b) THEN Ok(a + b)
    ELSE IF overflow_checks THEN Err([kind |-> "Panic"])
    ELSE IF a > 0 THEN Ok((a - MaxI32 - 1) + (b - MaxI32 - 1))
    ELSE Ok((a + MaxI32 + 1) + (b + MaxI32 + 1))

\* AnthropicAdapter::into_usage: the total is computed from the two counts.
anthropic_into_usage(usage_value, overflow_checks) ==
    LET input_tokens == x_take_i32_ok(usage_value, T_input_tokens)
        output_tokens == x_take_i32_ok(usage_value, T_output_tokens)
    IN  IF input_tokens.some \/ output_tokens.some
        THEN MapOk(AddI32(unwrap_or(input_tokens, 0), unwrap_or(output_tokens, 0),
                          overflow_checks),
                   LAMBDA total :
                       MetaUsage(input_tokens, output_tokens, Some(total)))
        ELSE Ok(MetaUsage(input_tokens, output_tokens, None))

\* body.x_take("usage").map(Self::into_usage).unwrap_or_default()
AnthropicUsage(taken, overflow_checks) ==
    IF taken.ok THEN anthropic_into_usage(taken.v, overflow_checks)
    ELSE Ok(MetaUsage_default)

\* The text of every content item, in order.
ItemTexts(json_content_items) ==
    CollectVec([i \in 1..Len(json_content_items) |->
                    x_take_string(json_content_items[i], <<T_text>>)])

\* No content for an empty vector of texts, their concatenation otherwise.
AnthropicContent(content) ==
    IF content = <<>> THEN None ELSE Some(join(content, <<>>))

\* A to_chat_response that answers with an empty tool-call payload when the
\* body has no content item.
anthropic_to_chat_response_ToolCallWhenEmpty(model_info, body, overflow_checks) ==
    AndThen(x_take_vec(body, <<T_content>>),
            LAMBDA json_content_items :
                AndThen(AnthropicUsage(x_take(body, <<T_usage>>), overflow_checks),
                        LAMBDA usage :
                            MapOk(ItemTexts(json_content_items),
                                  LAMBDA content :
                                      IF content = <<>>
                                      THEN ChatResponse(ToolCall(None), usage)
                                      ELSE ChatResponse(
                                               Content(AnthropicContent(content)),
                                               usage))))

\* AnthropicAdapter::to_chat_response
anthropic_to_chat_response(model_info, body, overflow_checks) ==
    AndThen(x_take_vec(body, <<T_content>>),
            LAMBDA json_content_items :
                AndThen(AnthropicUsage(x_take(body, <<T_usage>>), overflow_checks),
                        LAMBDA usage :
                            MapOk(ItemTexts(json_content_items),
                                  LAMBDA content :
                                      ChatResponse(Content(AnthropicContent(content)),
                                                   usage))))

\* ----------------------------------- adapter/adapters/gemini/adapter_impl.rs

GEMINI_BASE_URL == "https://generativelanguage.googleapis.com/v1beta/"

\* {"role": role, "parts": [{"text": content}]}
GeminiContent(role, content) ==
    JObj(Member(T_role, JStr(role))
         @@ Member(T_parts, JArr(<< JObj(Member(T_text, JStr(content))) >>)))

\* GeminiAdapter::into_gemini_request_parts, from the i-th message on.
RECURSIVE GeminiLoop(_, _, _, _, _)
GeminiLoop(model_info, req, i, systems, contents) ==
    IF i > Len(req.messages)
    THEN Ok([system |-> IF systems # <<>> THEN Some(join(systems, <<NL>>))
                        ELSE None,
             contents |-> contents])
    ELSE LET msg == req.messages[i] IN
         CASE msg.role = "System" ->
                GeminiLoop(model_info, req, i + 1,
                           Append(systems, msg.content), contents)
           [] msg.role = "Assistant" ->
                GeminiLoop(model_info, req, i + 1, systems,
                           Append(contents, GeminiContent(T_model, msg.content)))
           [] msg.role = "User" ->
                GeminiLoop(model_info, req, i + 1, systems,
                           Append(contents, GeminiContent(T_user, msg.content)))
           [] msg.role = "ToolResponse" -> RoleNotSupported(model_info)

\* A translation that emits the contents last message first.
into_gemini_request_parts_Reversed(model_info, req) ==
    GeminiLoop(model_info,
               [req EXCEPT !.messages =
                   [i \in 1..Len(@) |-> @[Len(@) + 1 - i]]],
               1, <<>>, <<>>)

\* GeminiAdapter::into_gemini_request_parts
into_gemini_request_parts(model_info, req) ==
    GeminiLoop(model_info, req, 1, <<>>, <<>>)

\* to_web_request_data, the payload: the contents, systemInstruction when
\* there is a system, and the supported ChatOptions.
GeminiPayload(parts, options_set) ==
    LET p0 == JObj(Member(T_contents, JArr(parts.contents)))
        p1 == InsertIf(p0, parts.system.some, <<T_systemInstruction>>,
                       JObj(Member(T_parts,
                                   JArr(<< JObj(Member(T_text,
                                                       JStr(unwrap_or(parts.system,
                                                                      <<>>)))) >>))))
        p2 == InsertSome(p1, <<T_generationConfig, T_temperature>>,
                         options_set.temperature)
        p3 == InsertSome(p2, <<T_generationConfig, T_maxOutputTokens>>,
                         options_set.max_tokens)
    IN  InsertSome(p3, <<T_generationConfig, T_topP>>, options_set.top_p)

\* A to_web_request_data that translates the conversation before it
\* resolves the credential.
gemini_to_web_request_data_PartsFirst(model_info, config_set, service_type, req, options_set) ==
    AndThen(into_gemini_request_parts(model_info, req),
            LAMBDA parts :
                MapOk(get_api_key_resolver(model_info, config_set),
                      LAMBDA api_key :
                          [url |-> [base |-> GEMINI_BASE_URL, path |-> "models/",
                                    model_name |-> model_info.model_name,
                                    verb |-> IF service_type = "Chat"
                                             THEN ":generateContent"
                                             ELSE ":streamGenerateContent",
                                    key |-> api_key],
                           headers |-> <<>>,
                           payload |-> GeminiPayload(parts, options_set)]))

\* GeminiAdapter::to_web_request_data
gemini_to_web_request_data(model_info, config_set, service_type, req, options_set) ==
    AndThen(get_api_key_resolver(model_info, config_set),
            LAMBDA api_key :
                MapOk(into_gemini_request_parts(model_info, req),
                      LAMBDA parts :
                          [url |-> [base |-> GEMINI_BASE_URL, path |-> "models/",
                                    model_name |-> model_info.model_name,
                                    verb |-> IF service_type = "Chat"
                                             THEN ":generateContent"
                                             ELSE ":streamGenerateContent",
                                    key |-> api_key],
                           headers |-> <<>>,
                           payload |-> GeminiPayload(parts, options_set)]))

\* GeminiAdapter::into_usage
gemini_into_usage(usage_value) ==
    MetaUsage(x_take_i32_ok(usage_value, T_promptTokenCount),
              x_take_i32_ok(usage_value, T_candidatesTokenCount),
              x_take_i32_ok(usage_value, T_totalTokenCount))

\* content.as_str().map(String::from)
as_str(v) == IF v.t = "str" THEN Some(v.s) ELSE None

\* Value::get(name).is_some()
has_key(value, name) == value.t = "obj" /\ name \in DOMAIN value.o

\* A parsing that reads the candidate text first and looks for `error` only
\* when there is none.
body_to_gemini_chat_response_TextFirst(model_info, body) ==
    IF pointer(body, <<T_candidates, T_0, T_content, T_parts, T_0, T_text>>).some
    THEN Ok([content |-> as_str(pointer(body, <<T_candidates, T_0, T_content,
                                                T_parts, T_0, T_text>>).v),
             usage |-> UsageOrDefault(x_take(body, <<T_usageMetadata>>),
                                      gemini_into_usage)])
    ELSE IF has_key(body, T_error)
    THEN Err([kind |-> "StreamEventError", model_info |-> model_info,
              body |-> body])
    ELSE PropertyNotFound

\* A parser that takes a body with the error envelope for one without text.
body_to_gemini_chat_response_ErrorAsEmpty(model_info, body) ==
    IF has_key(body, T_error)
    THEN Ok([content |-> None, usage |-> MetaUsage_default])
    ELSE MapOk(x_take(body, <<T_candidates, T_0, T_content, T_parts, T_0, T_text>>),
               LAMBDA content :
                   [content |-> as_str(content),
                    usage |-> UsageOrDefault(x_take(body, <<T_usageMetadata>>),
                                             gemini_into_usage)])

\* GeminiAdapter::body_to_gemini_chat_response
body_to_gemini_chat_response(model_info, body) ==
    IF has_key(body, T_error)
    THEN Err([kind |-> "StreamEventError", model_info |-> model_info,
              body |-> body])
    ELSE MapOk(x_take(body, <<T_candidates, T_0, T_content, T_parts, T_0, T_text>>),
               LAMBDA content :
                   [content |-> as_str(content),
                    usage |-> UsageOrDefault(x_take(body, <<T_usageMetadata>>),
                                             gemini_into_usage)])

\* GeminiAdapter::to_chat_response
gemini_to_chat_response(model_info, body) ==
    MapOk(body_to_gemini_chat_response(model_info, body),
          LAMBDA gemini_response :
              ChatResponse(Content(gemini_response.content), gemini_response.usage))

\* ------------------------------------------ streaming: the inter-stream

\* The items of a streaming response.
ItemStart == [kind |-> "Start"]
ItemChunk(content) == [kind |-> "Chunk", content |-> content]
ItemEnd == [kind |-> "End"]
ItemError(e) == [kind |-> "Error", error |-> e]

\* What the transport hands over: the opening of the event source, a
\* message of a type with its data, the vendor's completion marker, the
\* framing of a JSON array and its blocks, the end of the connection.
EventOpen == [kind |-> "Open"]
EventMessage(event_type, data) ==
    [kind |-> "Message", event_type |-> event_type, data |-> data]
EventDone == [kind |-> "Done"]
EventArrayStart == [kind |-> "ArrayStart"]
EventArrayEnd == [kind |-> "ArrayEnd"]
EventBlock(body) == [kind |-> "Block", body |-> body]
EventClosed == [kind |-> "Closed"]

\* An item, or nothing for an event that carries none.
TextItem_or_skip(taken) ==
    IF taken.ok /\ taken.v.t = "str" THEN Some(ItemChunk(taken.v.s)) ELSE None

\* OpenAIStreamer: the item of an event of the event source.  The data of
\* a message is a chunk with a delta, or the error envelope of the vendor.
openai_inter_event(model_info, event) ==
    CASE event.kind = "Open" -> Some(ItemStart)
      [] event.kind = "Done" -> Some(ItemEnd)
      [] event.kind = "Message" ->
            IF has_key(event.data, T_error)
            THEN Some(ItemError([kind |-> "StreamEventError",
                                 model_info |-> model_info,
                                 body |-> event.data]))
            ELSE TextItem_or_skip(x_take(event.data,
                                         <<T_choices, T_0, T_delta, T_content>>))
      [] OTHER -> None

\* AnthropicStreamer: the item of an event of the event source, by the type
\* of the message.
anthropic_inter_event(model_info, event) ==
    CASE event.kind = "Open" -> Some(ItemStart)
      [] event.kind = "Message" /\ event.event_type = "content_block_delta" ->
            TextItem_or_skip(x_take(event.data, <<T_delta, T_text>>))
      [] event.kind = "Message" /\ event.event_type = "message_stop" ->
            Some(ItemEnd)
      [] event.kind = "Message" /\ event.event_type = "error" ->
            Some(ItemError([kind |-> "StreamEventError",
                            model_info |-> model_info,
                            body |-> event.data]))
      [] OTHER -> None

\* The item of a parsed block of the Gemini array: its text, or the error
\* the parser found.
GeminiBlockItem(gemini_response) ==
    IF ~gemini_response.ok THEN Some(ItemError(gemini_response.err))
    ELSE IF gemini_response.v.content.some
    THEN Some(ItemChunk(gemini_response.v.content.v))
    ELSE None

\* GeminiStreamer: the item of a piece of the pretty-printed JSON array;
\* every block goes through body_to_gemini_chat_response.
gemini_inter_event(model_info, event) ==
    CASE event.kind = "ArrayStart" -> Some(ItemStart)
      [] event.kind = "ArrayEnd" -> Some(ItemEnd)
      [] event.kind = "Block" ->
            GeminiBlockItem(body_to_gemini_chat_response(model_info, event.body))
      [] OTHER -> None

\* The streamer of a vendor.
inter_event(model_info, event) ==
    CASE model_info.adapter_kind = "Anthropic" ->
            anthropic_inter_event(model_info, event)
      [] model_info.adapter_kind = "Gemini" ->
            gemini_inter_event(model_info, event)
      [] OTHER -> openai_inter_event(model_info, event)

\* to_chat_stream: the stream over a transport nothing was read from.
to_chat_stream(model_info) ==
    [open |-> TRUE, model_info |-> model_info, received |-> <<>>,
     items |-> <<>>, done |-> FALSE]

\* A stream that hands over the newest item first.
Yield_NewestFirst(s, event, item) ==
    [s EXCEPT !.received = Append(@, event),
              !.items = IF item.some THEN <<item.v>> \o @ ELSE @,
              !.done = \/ event.kind = "Closed"
                       \/ item.some /\ item.v.kind \in {"End", "Error"}]

\* The stream after an event was taken from the transport: the event's item,
\* if it has one, is handed to the caller; the end item, an error item and
\* the end of the connection end the stream.
Yield(s, event, item) ==
    [s EXCEPT !.received = Append(@, event),
              !.items = IF item.some THEN Append(@, item.v) ELSE @,
              !.done = \/ event.kind = "Closed"
                       \/ item.some /\ item.v.kind \in {"End", "Error"}]

\* Stream::poll_next: nothing more once the stream is done; otherwise the
\* next event of the transport is taken and its item handed over.
poll_next(s, event) ==
    IF s.done THEN s ELSE Yield(s, event, inter_event(s.model_info, event))

\* ------------------------------------------------ std::sync::OnceLock

\* OnceLock::new: no value, nobody initializing; `inits` counts the runs of
\* the initializing closure.
OnceLock_new == [state |-> "Incomplete", value |-> None, inits |-> 0]

\* A get_or_init that does not wait for the task that is initializing.
get_or_init_Unsynchronized(lock) ==
    IF lock.state = "Complete" THEN "return" ELSE "initialize"

\* OnceLock::get_or_init, what the caller does next: it returns the value
\* that is there, runs the closure when nobody has started to, and waits
\* while another task runs it.
get_or_init(lock) ==
    IF lock.state = "Complete" THEN "return"
    ELSE IF lock.state = "Incomplete" THEN "initialize"
    ELSE "wait"

\* AdapterConfig::default().with_auth_env_name(name)
with_auth_env_name(name) == [auth_env_name |-> Some(name)]

\* The closure each adapter hands to get_or_init.
default_adapter_config_init(kind) ==
    CASE kind = "OpenAI" -> with_auth_env_name("OPENAI_API_KEY")
      [] kind = "Anthropic" -> with_auth_env_name("ANTHROPIC_API_KEY")
      [] kind = "Gemini" -> with_auth_env_name("GEMINI_API_KEY")

\* ------------------------------------------------------------------ inputs

\* The System contents the caller writes: empty, plain, ending in a line
\* feed, a bare line feed.
SystemContents == { <<>>, <<"a">>, <<"b">>, <<"a", NL>>, <<NL>> }

\* The tool the caller declares (examples/c07, get_current_temperature).
GetTempName == <<"g", "e", "t">>
SetTempName == <<"s", "e", "t">>
ToolSchemas == { schema_for_fn_no_param(GetTempName, <<"d">>) }

\* The messages of the conversations whose System contents are combined.
ConversationMessages ==
    { system(c) : c \in SystemContents }
    \cup { user(<<"u">>), assistant(<<"r">>),
           tool_response(<<"i", "1">>, GetTempName, <<"7", "0">>) }

\* The arguments a model asks a tool to be called with.
X == <<"x">>
Y == <<"y">>
ArgValues ==
    { JNull,
      JNum(70),
      JStr(<<Q, "a", BS>>),
      JObj(Member(X, JNum(1))),
      JObj(Member(Y, JArr(<<JBool(TRUE), JStr(<<NL>>)>>)) @@ Member(X, JObj(<<>>))),
      JObj(Member(T_temperature, JStr(<<"7", "5">>))) }

T_call_1 == <<"c", "1">>
T_call_2 == <<"c", "2">>

\* The arguments of the tool calls an Assistant message echoes.
EchoedArgValues ==
    { JNull,
      JStr(<<Q, "a", BS>>),
      JObj(Member(Y, JArr(<<JBool(TRUE), JStr(<<NL>>)>>)) @@ Member(X, JObj(<<>>))),
      JObj(Member(T_temperature, JStr(<<"7", "5">>))) }

\* The tool calls an Assistant message echoes.
ToolCallLists ==
    { << AssistantToolCall(T_call_1, T_function, SetTempName, Some(v)) >> :
        v \in EchoedArgValues }
    \cup { << AssistantToolCall(T_call_1, T_function, GetTempName, None) >>,
           << AssistantToolCall(T_call_1, T_function, GetTempName, Some(JObj(<<>>))),
              AssistantToolCall(T_call_2, T_tool, SetTempName,
                                Some(JObj(Member(X, JNum(1))))) >> }

\* The messages of the conversations handed to the translators.
RequestMessages ==
    { system(<<"a">>), system(<<"b", NL>>), user(<<"u">>), assistant(<<"r">>),
      tool_response(T_call_1, GetTempName, <<"7", "0">>) }
    \cup { from_tool_calls(calls) : calls \in ToolCallLists }

OpenAIModels ==
    { [adapter_kind |-> "OpenAI", model_name |-> <<"m", "1">>],
      [adapter_kind |-> "Ollama", model_name |-> <<"m", "2">>] }
AnthropicModels == { [adapter_kind |-> "Anthropic", model_name |-> <<"m", "3">>] }
GeminiModels == { [adapter_kind |-> "Gemini", model_name |-> <<"m", "4">>] }

\* The credential is configured, or it is not.
ConfigSets == { [api_key |-> Some(<<"k">>)], [api_key |-> None] }

ServiceTypes == { "Chat", "ChatStream" }

\* ChatOptionsSet: what its getters return.
OptionSets ==
    { [temperature |-> None, max_tokens |-> None, top_p |-> None,
       json_mode |-> None, capture_usage |-> None],
      [temperature |-> Some(1), max_tokens |-> Some(256), top_p |-> Some(1),
       json_mode |-> Some(TRUE), capture_usage |-> Some(TRUE)],
      [temperature |-> None, max_tokens |-> None, top_p |-> None,
       json_mode |-> Some(FALSE), capture_usage |-> Some(FALSE)] }

\* The `arguments` strings a vendor sends: JSON texts, an empty text and a
\* truncated one.
A_x1 == <<"{", Q, "x", Q, ":", "1", "}">>
A_temperature ==
    << "{", Q, "t", "e", "m", "p", "e", "r", "a", "t", "u", "r", "e", Q,
       ":", SP, Q, "7", "5", Q, "}" >>
A_empty == <<>>
A_truncated == <<"{">>

\* A tool call as a vendor writes it.
VendorToolCall(id, type, name, arguments) ==
    JObj(Member(T_id, JStr(id)) @@ Member(T_type, JStr(type))
         @@ Member(T_function,
                   JObj(Member(T_name, JStr(name))
                        @@ Member(T_arguments, JStr(arguments)))))

\* The values a response may hold at /choices/0/message/tool_calls.
VendorToolCallArrays ==
    { JArr(<<>>),
      JArr(<< VendorToolCall(T_call_1, T_function, SetTempName, A_temperature) >>),
      JArr(<< VendorToolCall(T_call_1, T_function, GetTempName, A_x1),
              VendorToolCall(T_call_2, T_function, SetTempName, A_temperature) >>),
      JArr(<< VendorToolCall(T_call_1, T_function, GetTempName, A_empty) >>),
      JArr(<< VendorToolCall(T_call_1, T_function, SetTempName, A_x1),
              VendorToolCall(T_call_2, T_function, SetTempName, A_truncated) >>),
      JArr(<< JObj(Member(T_id, JStr(T_call_1))) >>),
      JArr(<< JArr(<< JStr(T_call_1), JStr(T_function),
                      JArr(<< JStr(GetTempName), JStr(A_x1) >>) >>) >>) }

\* A member that may be absent.
OptMember(k, opt) == IF opt.some THEN Member(k, opt.v) ELSE <<>>

Absent(values) == {None} \cup { Some(v) : v \in values }

OpenAIUsages ==
    { JObj(Member(T_prompt_tokens, JNum(3)) @@ Member(T_completion_tokens, JNum(4))
           @@ Member(T_total_tokens, JNum(7))),
      JObj(Member(T_prompt_tokens, JNum(3)) @@ Member(T_completion_tokens, JNum(4))) }

\* OpenAI-style response bodies.
OpenAIBodies ==
    { JObj(Member(T_choices,
                  JArr(<< JObj(OptMember(T_finish_reason, finish_reason)
                               @@ Member(T_message,
                                         JObj(Member(T_role, JStr(T_assistant))
                                              @@ OptMember(T_content, content)
                                              @@ OptMember(T_tool_calls, tool_calls)))) >>))
           @@ OptMember(T_usage, usage)) :
        finish_reason \in Absent({ JNull, JStr(T_stop), JStr(T_tool_calls),
                                   JStr(T_length), JNum(1) }),
        content \in Absent({ JNull, JStr(<<"h", "i">>), JStr(<<>>) }),
        tool_calls \in Absent({JNull} \cup VendorToolCallArrays),
        usage \in Absent(OpenAIUsages) }
    \cup { JObj(<<>>), JObj(Member(T_choices, JArr(<<>>))) }

GeminiUsages ==
    { JObj(Member(T_promptTokenCount, JNum(3))
           @@ Member(T_candidatesTokenCount, JNum(4))),
      JObj(Member(T_promptTokenCount, JNum(3))
           @@ Member(T_candidatesTokenCount, JNum(4))
           @@ Member(T_totalTokenCount, JNum(7))) }

\* Gemini-style response bodies, with and without the error envelope.
GeminiBodies ==
    { JObj(OptMember(T_error, error)
           @@ OptMember(T_candidates, candidates)
           @@ OptMember(T_usageMetadata, usage)) :
        error \in Absent({ JNull, JObj(Member(T_message, JStr(<<"n", "o">>))) }),
        candidates \in Absent(
            { JArr(<<>>) }
            \cup { JArr(<< JObj(Member(T_content,
                                      JObj(Member(T_parts,
                                                  JArr(<< JObj(Member(T_text, text)) >>))))) >>) :
                    text \in { JStr(<<"h", "i">>), JStr(<<>>), JNum(1) } }),
        usage \in Absent(GeminiUsages) }

\* Anthropic-style usage objects: counts present, absent, of another type,
\* and at the ends of the i32 range.
AnthropicUsages ==
    { JNull, JObj(<<>>),
      JObj(Member(T_input_tokens, JNum(3)) @@ Member(T_output_tokens, JNum(4))),
      JObj(Member(T_input_tokens, JNum(3))),
      JObj(Member(T_output_tokens, JNum(4))),
      JObj(Member(T_input_tokens, JStr(<<"a">>)) @@ Member(T_output_tokens, JNum(4))),
      JObj(Member(T_input_tokens, JNum(MaxI32)) @@ Member(T_output_tokens, JNum(1))),
      JObj(Member(T_input_tokens, JNum(-MaxI32 - 1))
           @@ Member(T_output_tokens, JNum(-1))) }

\* A content item of an Anthropic response.
TextItem(text) == JObj(Member(T_type, JStr(T_text)) @@ Member(T_text, JStr(text)))

\* Anthropic-style content arrays: empty, one or two items, items of empty
\* text, an item without text, and a value that is not an array.
AnthropicContents ==
    { JNull, JArr(<<>>),
      JArr(<<TextItem(<<"a">>)>>),
      JArr(<<TextItem(<<"a">>), TextItem(<<"b">>)>>),
      JArr(<<TextItem(<<>>)>>),
      JArr(<<TextItem(<<>>), TextItem(<<>>)>>),
      JArr(<<TextItem(<<"a">>), TextItem(<<>>)>>),
      JArr(<<TextItem(<<"a">>), JObj(Member(T_type, JStr(T_function)))>>),
      JArr(<<JObj(Member(T_text, JNum(1)))>>) }

\* Anthropic-style response bodies.
AnthropicBodies ==
    { JObj(OptMember(T_content, content) @@ OptMember(T_usage, usage)) :
        content \in Absent(AnthropicContents), usage \in Absent(AnthropicUsages) }

ResponseBodies == OpenAIBodies \cup GeminiBodies \cup AnthropicBodies

\* The descriptions of the functions a schema is generated for.
FnDescs == { <<>>, <<"d">>, <<"d", SP, "e">> }

\* examples/c06: the enum of the temperature units.
TemperatureUnits ==
    TEnum(<<"T", "e", "m", "p", "e", "r", "a", "t", "u", "r", "e",
            "U", "n", "i", "t", "s">>,
          << <<"C", "e", "l", "c", "i", "u", "s">>,
             <<"F", "a", "r", "e", "n", "h", "e", "i", "t">> >>)

\* The fields parameter structures are made of: the two of
\* GetCurrentWeatherParams (examples/c06), an optional one, an integer, and
\* an enum without a doc comment.
AllFields ==
    << Field(<<"l", "o", "c", "a", "t", "i", "o", "n">>, Some(<<"c", "i", "t", "y">>),
             TString),
       Field(T_format, Some(<<"u", "n", "i", "t">>), TemperatureUnits),
       Field(<<"n", "o", "t", "e">>, Some(<<"n">>), TOption(TString)),
       Field(<<"d", "a", "y", "s">>, None, TI32),
       Field(<<"u", "n", "i", "t">>, None, TemperatureUnits) >>

\* The parameter structures: every choice of fields, none included, in the
\* order of their declaration.
ParamStructs ==
    { Struct(<<"P">>, SelectSeq(AllFields, LAMBDA f : f.name \in names)) :
        names \in SUBSET { AllFields[i].name : i \in 1..Len(AllFields) } }

\* The error envelope of a vendor.
ErrorEnvelope == JObj(Member(T_error, JObj(Member(T_message, JStr(<<"n", "o">>)))))

\* An OpenAI chunk: its delta, with or without content.
OpenAIChunk(delta) ==
    JObj(Member(T_choices, JArr(<< JObj(Member(T_delta, JObj(delta))) >>)))

\* A Gemini block holding a text.
GeminiBlock(text) ==
    JObj(Member(T_candidates,
                JArr(<< JObj(Member(T_content,
                                    JObj(Member(T_parts,
                                                JArr(<< JObj(Member(T_text, text)) >>))))) >>)))

\* What the transport of a vendor can hand over next: framing, fragments of
\* text, frames without text, the completion signal, an error of the vendor
\* and the end of the connection.
StreamEvents(model_info) ==
    CASE model_info.adapter_kind = "Anthropic" ->
            { EventOpen, EventClosed,
              EventMessage("content_block_delta",
                           JObj(Member(T_delta, JObj(Member(T_text, JStr(<<"a">>)))))),
              EventMessage("content_block_delta",
                           JObj(Member(T_delta, JObj(Member(T_text, JStr(<<"b">>)))))),
              EventMessage("ping", JObj(<<>>)),
              EventMessage("message_stop", JObj(<<>>)),
              EventMessage("error", ErrorEnvelope) }
      [] model_info.adapter_kind = "Gemini" ->
            { EventArrayStart, EventArrayEnd, EventClosed,
              EventBlock(GeminiBlock(JStr(<<"a">>))),
              EventBlock(GeminiBlock(JStr(<<"b">>))),
              EventBlock(GeminiBlock(JNum(1))),
              EventBlock(ErrorEnvelope) }
      [] OTHER ->
            { EventOpen, EventDone, EventClosed,
              EventMessage("message", OpenAIChunk(Member(T_content, JStr(<<"a">>)))),
              EventMessage("message", OpenAIChunk(Member(T_content, JStr(<<"b">>)))),
              EventMessage("message", OpenAIChunk(Member(T_role, JStr(T_assistant)))),
              EventMessage("message", ErrorEnvelope) }

\* The adapter kinds that have a default configuration of their own.
AdapterKinds == { "OpenAI", "Anthropic", "Gemini" }

\* --------------------------------------- examples/c07-tool-settemp.rs: main

\* examples/c07: SetTemperatureParams
SetTemperatureParams ==
    Struct(<<"S">>, << Field(T_temperature, Some(<<"t">>), TString) >>)

\* ChatRequest::with_system
with_system(req, content) == append_message(req, system(content))

\* main, before the loop: the system prompt, the two tools and the user's
\* request (the texts are shortened).
InitialChatRequest ==
    append_message(
        append_tool(
            append_tool(with_system(ChatRequest_default, <<"s">>),
                        schema_for_fn_no_param(GetTempName, <<"g">>)),
            schema_for_fn_single_param(SetTemperatureParams, SetTempName, <<"s">>)),
        user(<<"u">>))

\* The message that answers a tool call with the result of the function.
ToolResponseFor(tool_call, fn_result) ==
    tool_response(tool_call.tool_call_id, tool_call.function.fn_name, fn_result)

\* The body of `for tool_call in &tc_vec`, from the i-th call on: vec gains
\* the response to every call that names one of the two functions, and the
\* thermostat is what the functions leave.
RECURSIVE HandleToolCalls(_, _, _, _)
HandleToolCalls(tc_vec, i, vec, temp) ==
    IF i > Len(tc_vec) THEN [vec |-> vec, temp |-> temp]
    ELSE IF tc_vec[i].function.fn_name = SetTempName
    THEN LET invoked == invoke_with_args([name |-> "set_current_temperature"],
                                         tc_vec[i].function.fn_arguments,
                                         tc_vec[i].function.fn_name, temp)
         IN  HandleToolCalls(tc_vec, i + 1,
                             Append(vec, ToolResponseFor(tc_vec[i], invoked.ret)),
                             invoked.temp)
    ELSE IF tc_vec[i].function.fn_name = GetTempName
    THEN HandleToolCalls(tc_vec, i + 1,
                         Append(vec, ToolResponseFor(
                                         tc_vec[i],
                                         invoke_no_args(
                                             get_current_temperature(temp).returned,
                                             tc_vec[i].function.fn_name))),
                         temp)
    ELSE HandleToolCalls(tc_vec, i + 1, vec, temp)

\* Followup messages that open with the responses and close with the echo of
\* the calls.
ToolCallFollowup_EchoLast(tc_vec, temp) ==
    LET handled == HandleToolCalls(tc_vec, 1, <<>>, temp)
    IN  [followup_msgs |-> Some(Append(handled.vec, from_tool_calls(tc_vec))),
         temp |-> handled.temp]

\* Followup messages only when a call named one of the two functions.
ToolCallFollowup_OnlyWhenAnswered(tc_vec, temp) ==
    LET handled == HandleToolCalls(tc_vec, 1, <<from_tool_calls(tc_vec)>>, temp)
    IN  [followup_msgs |-> IF Len(handled.vec) > 1 THEN Some(handled.vec) ELSE None,
         temp |-> handled.temp]

\* The ToolCall(Some(tc_vec)) arm: the followup messages are the echo of the
\* calls, then the responses.
ToolCallFollowup(tc_vec, temp) ==
    LET handled == HandleToolCalls(tc_vec, 1, <<from_tool_calls(tc_vec)>>, temp)
    IN  [followup_msgs |-> Some(handled.vec), temp |-> handled.temp]

\* The match on chat_res.payload: the request and the thermostat it leaves,
\* and the followup messages, if any.
MatchPayload(req, payload, temp) ==
    IF payload.variant = "Content"
    THEN [chat_req |-> IF payload.content.some
                       THEN append_message(req, assistant(payload.content.v))
                       ELSE req,
          followup_msgs |-> None, temp |-> temp]
    ELSE IF payload.tool_calls.some
    THEN [chat_req |-> req] @@ ToolCallFollowup(payload.tool_calls.v, temp)
    ELSE [chat_req |-> req, followup_msgs |-> None, temp |-> temp]

\* for msg in msgs { chat_req = chat_req.append_message(msg) }
RECURSIVE AppendAll(_, _)
AppendAll(req, msgs) ==
    IF msgs = <<>> THEN req
    ELSE AppendAll(append_message(req, msgs[1]), Tail(msgs))

\* What exec_chat can answer with: text or none, no tool call, and lists of
\* calls naming the thermostat's functions or another one, with arguments
\* that are well formed, malformed or absent.
T_other == <<"o", "t", "h", "e", "r">>
ChatResponses ==
    { ChatResponse(payload, MetaUsage_default) :
        payload \in
            { Content(None), Content(Some(<<"o", "k">>)), ToolCall(None),
              ToolCall(Some(<<>>)),
              ToolCall(Some(<< AssistantToolCall(
                                   T_call_1, T_function, SetTempName,
                                   Some(JObj(Member(T_temperature,
                                                    JStr(<<"7", "5">>))))) >>)),
              ToolCall(Some(<< AssistantToolCall(T_call_1, T_function,
                                                 GetTempName, None) >>)),
              ToolCall(Some(<< AssistantToolCall(T_call_1, T_function,
                                                 T_other, None) >>)),
              ToolCall(Some(<< AssistantToolCall(T_call_1, T_function,
                                                 GetTempName, Some(JObj(<<>>))),
                               AssistantToolCall(T_call_2, T_function, SetTempName,
                                                 Some(JNum(70))) >>)),
              ToolCall(Some(<< AssistantToolCall(T_call_1, T_function,
                                                 T_other, Some(JNull)),
                               AssistantToolCall(T_call_2, T_function,
                                                 SetTempName, None) >>)) } }

\* What func() does: the native functions handed to the invocation bridge.
NoArgFunctions ==
    { [name |-> "get_current_temperature"],
      [name |-> "failing", err |-> T_BotResponseIsEmpty] }

WithArgFunctions ==
    { [name |-> "set_current_temperature"],
      [name |-> "failing", err |-> T_BotResponseIsEmpty] }

FnNames == { GetTempName, SetTempName }

\* The `args` handed to invoke_with_args: absent, of the expected
\* structure (as a map and as a sequence), and of other shapes.
InvokeArgs ==
    Absent(ArgValues
           \cup { JObj(Member(T_temperature, JStr(<<"6", "8">>)) @@ Member(X, JNull)),
                  JArr(<< JStr(<<"7", "2">>) >>),
                  JObj(Member(T_temperature, JNum(75))) })

\* ----------------------------------------------------------------- actions

\* chat_req = chat_req.append_message(msg)
AppendMessage(msg, bound) ==
    /\ Len(chat_req.messages) < bound
    /\ chat_req' = append_message(chat_req, msg)
    /\ out' = [op |-> "append_message"]
    /\ UNCHANGED <<web_response, thermostat, chat_stream, once, tasks, driver>>

\* chat_req = chat_req.append_tool(tool)
AppendTool(tool) ==
    /\ (chat_req.tools.some => Len(chat_req.tools.v) < MaxTools)
    /\ chat_req' = append_tool(chat_req, tool)
    /\ out' = [op |-> "append_tool"]
    /\ UNCHANGED <<web_response, thermostat, chat_stream, once, tasks, driver>>

\* chat_req.combine_systems()
CombineSystems ==
    /\ out' = [op |-> "combine_systems", ret |-> combine_systems(chat_req)]
    /\ UNCHANGED <<chat_req, web_response, thermostat, chat_stream, once, tasks, driver>>

\* What a call of Adapter::to_web_request_data leaves in `out`: its
\* arguments and its result.
WebRequestCall(adapter, model_info, config_set, service_type, options_set, ret) ==
    [op |-> "to_web_request_data", adapter |-> adapter,
     model_info |-> model_info, config_set |-> config_set,
     service_type |-> service_type, options_set |-> options_set, ret |-> ret]

\* OpenAIAdapter::to_web_request_data(.., chat_req.clone(), ..)
OpenAIToWebRequestData ==
    /\ \E model_info \in OpenAIModels, config_set \in ConfigSets,
          service_type \in ServiceTypes, options_set \in OptionSets :
            out' = WebRequestCall("OpenAI", model_info, config_set, service_type,
                                  options_set,
                                  openai_to_web_request_data(
                                      model_info, config_set, service_type,
                                      chat_req, options_set))
    /\ UNCHANGED <<chat_req, web_response, thermostat, chat_stream, once, tasks, driver>>

\* AnthropicAdapter::to_web_request_data(.., chat_req.clone(), ..)
AnthropicToWebRequestData ==
    /\ \E model_info \in AnthropicModels, config_set \in ConfigSets,
          service_type \in ServiceTypes, options_set \in OptionSets :
            out' = WebRequestCall("Anthropic", model_info, config_set, service_type,
                                  options_set,
                                  anthropic_to_web_request_data(
                                      model_info, config_set, service_type,
                                      chat_req, options_set))
    /\ UNCHANGED <<chat_req, web_response, thermostat, chat_stream, once, tasks, driver>>

\* GeminiAdapter::to_web_request_data(.., chat_req.clone(), ..)
GeminiToWebRequestData ==
    /\ \E model_info \in GeminiModels, config_set \in ConfigSets,
          service_type \in ServiceTypes, options_set \in OptionSets :
            out' = WebRequestCall("Gemini", model_info, config_set, service_type,
                                  options_set,
                                  gemini_to_web_request_data(
                                      model_info, config_set, service_type,
                                      chat_req, options_set))
    /\ UNCHANGED <<chat_req, web_response, thermostat, chat_stream, once, tasks, driver>>

\* The transport hands over the body of a WebResponse.
ReceiveResponse(body) ==
    /\ web_response' = body
    /\ out' = [op |-> "web_response"]
    /\ UNCHANGED <<chat_req, thermostat, chat_stream, once, tasks, driver>>

\* OpenAIAdapter::to_chat_response(model_info, web_response)
OpenAIToChatResponse ==
    /\ \E model_info \in OpenAIModels :
            out' = [op |-> "to_chat_response", adapter |-> "OpenAI",
                    model_info |-> model_info,
                    ret |-> openai_to_chat_response(model_info, web_response)]
    /\ UNCHANGED <<chat_req, web_response, thermostat, chat_stream, once, tasks, driver>>

\* GeminiAdapter::to_chat_response(model_info, web_response)
GeminiToChatResponse ==
    /\ \E model_info \in GeminiModels :
            out' = [op |-> "to_chat_response", adapter |-> "Gemini",
                    model_info |-> model_info,
                    ret |-> gemini_to_chat_response(model_info, web_response)]
    /\ UNCHANGED <<chat_req, web_response, thermostat, chat_stream, once, tasks, driver>>

\* AnthropicAdapter::to_chat_response(model_info, web_response), built with
\* or without overflow checks
AnthropicToChatResponse ==
    /\ \E model_info \in AnthropicModels, overflow_checks \in BOOLEAN :
            out' = [op |-> "to_chat_response", adapter |-> "Anthropic",
                    model_info |-> model_info,
                    overflow_checks |-> overflow_checks,
                    ret |-> anthropic_to_chat_response(model_info, web_response,
                                                       overflow_checks)]
    /\ UNCHANGED <<chat_req, web_response, thermostat, chat_stream, once, tasks, driver>>

\* schema_for_fn_no_param(fn_name, fn_desc)
SchemaForFnNoParam ==
    /\ \E fn_name \in FnNames, fn_desc \in FnDescs :
            out' = [op |-> "schema_for_fn_no_param",
                    fn_name |-> fn_name, fn_desc |-> fn_desc,
                    ret |-> schema_for_fn_no_param(fn_name, fn_desc)]
    /\ UNCHANGED <<chat_req, web_response, thermostat, chat_stream, once, tasks, driver>>

\* schema_for_fn_single_param::<TParam>(fn_name, fn_desc)
SchemaForFnSingleParam ==
    /\ \E TParam \in ParamStructs, fn_name \in FnNames, fn_desc \in FnDescs :
            out' = [op |-> "schema_for_fn_single_param", TParam |-> TParam,
                    fn_name |-> fn_name, fn_desc |-> fn_desc,
                    ret |-> schema_for_fn_single_param(TParam, fn_name, fn_desc)]
    /\ UNCHANGED <<chat_req, web_response, thermostat, chat_stream, once, tasks, driver>>

\* Adapter::to_chat_stream(model_info, reqwest_builder, options_set)
ToChatStream ==
    /\ \E model_info \in OpenAIModels \cup AnthropicModels \cup GeminiModels :
            /\ chat_stream' = to_chat_stream(model_info)
            /\ out' = [op |-> "to_chat_stream", model_info |-> model_info]
    /\ UNCHANGED <<chat_req, web_response, thermostat, once, tasks, driver>>

\* The caller asks the stream for its next item; the transport hands over
\* its next event.
PollNext ==
    /\ chat_stream.open
    /\ Len(chat_stream.received) < MaxEvents
    /\ \E event \in StreamEvents(chat_stream.model_info) :
            /\ chat_stream' = poll_next(chat_stream, event)
            /\ out' = [op |-> "poll_next", event |-> event,
                       was_done |-> chat_stream.done]
    /\ UNCHANGED <<chat_req, web_response, thermostat, once, tasks, driver>>

\* A task calls default_adapter_config(kind).
CallDefaultAdapterConfig(t) ==
    /\ tasks[t].pc = "idle"
    /\ \E kind \in AdapterKinds :
            tasks' = [tasks EXCEPT ![t] = [pc |-> "get_or_init", kind |-> kind]]
    /\ UNCHANGED <<chat_req, web_response, thermostat, out, chat_stream, once, driver>>

\* get_or_init, entered: the value is returned when it is there; the task
\* becomes the one that initializes when nobody is; it waits otherwise.
GetOrInit(t) ==
    /\ tasks[t].pc = "get_or_init"
    /\ LET kind == tasks[t].kind
           step == get_or_init(once[kind])
       IN  /\ step # "wait"
           /\ IF step = "return"
              THEN /\ tasks' = [tasks EXCEPT ![t] = [pc |-> "returned", kind |-> kind,
                                                     ret |-> once[kind].value.v]]
                   /\ once' = once
                   /\ out' = [op |-> "default_adapter_config", task |-> t,
                              kind |-> kind, ret |-> once[kind].value.v]
              ELSE /\ tasks' = [tasks EXCEPT ![t] = [pc |-> "initializing",
                                                     kind |-> kind]]
                   /\ once' = [once EXCEPT ![kind].state = "Running"]
                   /\ out' = out
    /\ UNCHANGED <<chat_req, web_response, thermostat, chat_stream, driver>>

\* The initializing task runs the closure, stores its value and returns it.
Initialize(t) ==
    /\ tasks[t].pc = "initializing"
    /\ LET kind == tasks[t].kind
           value == default_adapter_config_init(kind)
       IN  /\ once' = [once EXCEPT ![kind] = [state |-> "Complete",
                                              value |-> Some(value),
                                              inits |-> @.inits + 1]]
           /\ tasks' = [tasks EXCEPT ![t] = [pc |-> "returned", kind |-> kind,
                                             ret |-> value]]
           /\ out' = [op |-> "default_adapter_config", task |-> t,
                      kind |-> kind, ret |-> value]
    /\ UNCHANGED <<chat_req, web_response, thermostat, chat_stream, driver>>

\* The task goes on with the configuration it was given, and may call again.
UseConfig(t) ==
    /\ tasks[t].pc = "returned"
    /\ tasks' = [tasks EXCEPT ![t] = [pc |-> "idle"]]
    /\ UNCHANGED <<chat_req, web_response, thermostat, out, chat_stream, once, driver>>

\* main, up to the loop
BuildChatRequest ==
    /\ driver.pc = "start"
    /\ chat_req' = InitialChatRequest
    /\ driver' = [pc |-> "loop", calls |-> 0]
    /\ UNCHANGED <<web_response, thermostat, out, chat_stream, once, tasks>>

\* client.exec_chat(MODEL, chat_req.clone(), None).await?: a response, or
\* the error that ends main
ExecChat ==
    /\ driver.pc = "loop"
    /\ driver.calls < MaxTurns
    /\ \/ \E chat_res \in ChatResponses :
            driver' = [pc |-> "match", calls |-> driver.calls + 1,
                       chat_res |-> chat_res]
       \/ driver' = [pc |-> "failed", calls |-> driver.calls + 1]
    /\ out' = [op |-> "exec_chat", chat_req |-> chat_req]
    /\ UNCHANGED <<chat_req, web_response, thermostat, chat_stream, once, tasks>>

\* The rest of the loop body: the match on the payload, then the followup
\* messages are appended and the loop goes on, or it breaks.
HandleResponse ==
    /\ driver.pc = "match"
    /\ LET matched == MatchPayload(chat_req, driver.chat_res.payload, thermostat)
       IN  /\ chat_req' = IF matched.followup_msgs.some
                          THEN AppendAll(matched.chat_req, matched.followup_msgs.v)
                          ELSE matched.chat_req
           /\ thermostat' = matched.temp
           /\ driver' = [pc |-> IF matched.followup_msgs.some THEN "loop" ELSE "done",
                         calls |-> driver.calls,
                         chat_res |-> driver.chat_res,
                         before |-> chat_req]
    /\ out' = [op |-> "handle_response"]
    /\ UNCHANGED <<web_response, chat_stream, once, tasks>>

\* invoke_no_args(func, fn_name)
InvokeNoArgs ==
    /\ \E func \in NoArgFunctions, fn_name \in FnNames :
        LET called == CallNoArgs(func, thermostat) IN
        /\ out' = [op |-> "invoke_no_args", func |-> func, fn_name |-> fn_name,
                   before |-> thermostat,
                   ret |-> invoke_no_args(called.returned, fn_name)]
        /\ thermostat' = called.temp
    /\ UNCHANGED <<chat_req, web_response, chat_stream, once, tasks, driver>>

\* invoke_with_args(func, args, fn_name)
InvokeWithArgs ==
    /\ \E func \in WithArgFunctions, fn_name \in FnNames, args \in InvokeArgs :
        LET invoked == invoke_with_args(func, args, fn_name, thermostat) IN
        /\ out' = [op |-> "invoke_with_args", func |-> func, fn_name |-> fn_name,
                   args |-> args, before |-> thermostat,
                   called |-> invoked.called, calls |-> invoked.calls,
                   ret |-> invoked.ret]
        /\ thermostat' = invoked.temp
    /\ UNCHANGED <<chat_req, web_response, chat_stream, once, tasks, driver>>

\* ---------------------------------------------------------- specifications

Init ==
    /\ chat_req = ChatRequest_default
    /\ web_response = JNull
    /\ thermostat = <<"7", "0">>
    /\ out = [op |-> "new"]
    /\ chat_stream = [open |-> FALSE]
    /\ once = [kind \in AdapterKinds |-> OnceLock_new]
    /\ tasks = [t \in 1..MaxTasks |-> [pc |-> "idle"]]
    /\ driver = [pc |-> "start"]

\* Conversations are built message by message and their System contents
\* combined.
NextChatReq ==
    \/ \E msg \in ConversationMessages : AppendMessage(msg, MaxMsgs)
    \/ \E tool \in ToolSchemas : AppendTool(tool)
    \/ CombineSystems

SpecChatReq == Init /\ [][NextChatReq]_vars

\* Conversations are built message by message and translated for a vendor.
NextRequest ==
    \/ \E msg \in RequestMessages : AppendMessage(msg, MaxReqMsgs)
    \/ OpenAIToWebRequestData
    \/ AnthropicToWebRequestData
    \/ GeminiToWebRequestData

SpecRequest == Init /\ [][NextRequest]_vars

\* Response bodies arrive and are parsed.
NextResponse ==
    \/ \E body \in ResponseBodies : ReceiveResponse(body)
    \/ OpenAIToChatResponse
    \/ AnthropicToChatResponse
    \/ GeminiToChatResponse

SpecResponse == Init /\ [][NextResponse]_vars

\* Tools are invoked through the invocation bridge.
NextInvoke ==
    \/ InvokeNoArgs
    \/ InvokeWithArgs

SpecInvoke == Init /\ [][NextInvoke]_vars

NextSchema ==
    \/ SchemaForFnNoParam
    \/ SchemaForFnSingleParam

SpecSchema == Init /\ [][NextSchema]_vars

\* Streaming responses are opened and consumed item by item.
NextStream ==
    \/ ToChatStream
    \/ PollNext

SpecStream == Init /\ [][NextStream]_vars

\* Tasks ask for the default configuration of the adapters, concurrently.
NextConfig ==
    \/ \E t \in 1..MaxTasks : CallDefaultAdapterConfig(t)
    \/ \E t \in 1..MaxTasks : GetOrInit(t)
    \/ \E t \in 1..MaxTasks : Initialize(t)
    \/ \E t \in 1..MaxTasks : UseConfig(t)

SpecConfig == Init /\ [][NextConfig]_vars

\* examples/c07: main's conversation with the model.
NextDriver ==
    \/ BuildChatRequest
    \/ ExecChat
    \/ HandleResponse

SpecDriver == Init /\ [][NextDriver]_vars

\* ------------------------------------------------------------------ claims

\* The text a \n\n b \n\n c ... of a list of texts.
RECURSIVE JoinBlankLine(_)
JoinBlankLine(texts) ==
    IF Len(texts) = 0 THEN <<>>
    ELSE IF Len(texts) = 1 THEN texts[1]
    ELSE texts[1] \o <<NL, NL>> \o JoinBlankLine(Tail(texts))

NoneEndsInNL(texts) == \A i \in 1..Len(texts) : ~ends_with(texts[i], NL)

C2_NoneIffNoSystem ==
    out.op = "combine_systems"
    => (out.ret.some <=> \E i \in 1..Len(chat_req.messages) :
                             chat_req.messages[i].role = "System")

\* C2 witness: a request with other messages and a tool but no System
\* message was combined, and gave None.
C2_Witness ==
    /\ out.op = "combine_systems"
    /\ Len(chat_req.messages) >= 2
    /\ chat_req.tools.some
    /\ \A i \in 1..Len(chat_req.messages) : chat_req.messages[i].role # "System"
    /\ out.ret = None

\* The request cut after its first n messages.
FirstMessages(req, n) == [req EXCEPT !.messages = SubSeq(@, 1, n)]

\* The text combined from the messages before message i, and message i's
\* own content, for a System message i that is not the first one.
LaterSystems(req) ==
    { i \in 1..Len(req.messages) :
        /\ req.messages[i].role = "System"
        /\ combine_systems(FirstMessages(req, i - 1)).some }

ToolCallMessages(req) ==
    SelectSeq(req.messages, LAMBDA m : m.role = "Assistant" /\ m.extra.some)

\* The messages of a payload that carry a tool_calls array, in order.
EmittedToolCalls(payload) ==
    LET emitted == SelectSeq(payload.o[T_messages].a,
                             LAMBDA m : T_tool_calls \in DOMAIN m.o)
    IN  [k \in 1..Len(emitted) |-> emitted[k].o[T_tool_calls]]

AllHaveArguments(calls) ==
    \A j \in 1..Len(calls) : calls[j].function.fn_arguments.some

\* C4: whenever the OpenAI translator has built a request, each tool call
\* with fn_arguments = Some(v) of each Assistant message, read back from the
\* emitted tool_calls array the way the response parser reads it, is the
\* call it was (same tool_call_id, tool_call_type, fn_name, and
\* fn_arguments = Some(v)); and an array whose calls all have arguments
\* reads back as the whole list.
C4_ToolCallsRoundTrip ==
    (out.op = "to_web_request_data" /\ out.adapter = "OpenAI" /\ out.ret.ok)
    => LET sent == ToolCallMessages(chat_req)
           emitted == EmittedToolCalls(out.ret.v.payload)
       IN  /\ Len(emitted) = Len(sent)
           /\ \A k \in 1..Len(sent) :
                LET calls == sent[k].extra.v IN
                /\ emitted[k].t = "arr"
                /\ Len(emitted[k].a) = Len(calls)
                /\ \A j \in 1..Len(calls) :
                        calls[j].function.fn_arguments.some
                        => AssistantToolCall_from_value(emitted[k].a[j])
                               = Ok(calls[j])
                /\ AllHaveArguments(calls)
                   => tool_calls_from_value(emitted[k]) = Ok(Some(calls))

\* C4 witness: a request holding a System message and an Assistant message
\* that echoes two calls, one with arguments {"x":1}, was translated for
\* the variant that moves the System contents to the front.
C4_Witness ==
    /\ out.op = "to_web_request_data" /\ out.adapter = "OpenAI" /\ out.ret.ok
    /\ out.model_info.adapter_kind = "Ollama"
    /\ Len(chat_req.messages) = 2
    /\ chat_req.messages[1].role = "Assistant"
    /\ chat_req.messages[1].extra.some
    /\ Len(chat_req.messages[1].extra.v) = 2
    /\ chat_req.messages[1].extra.v[2].function.fn_arguments
           = Some(JObj(Member(X, JNum(1))))
    /\ chat_req.messages[2].role = "System"
    /\ tool_calls_from_value(EmittedToolCalls(out.ret.v.payload)[1])
           = Ok(Some(chat_req.messages[1].extra.v))

HasToolResponse(req) ==
    \E i \in 1..Len(req.messages) : req.messages[i].role = "ToolResponse"

\* C5 as stated: whenever the Anthropic or the Gemini translator was given
\* a request holding a ToolResponse message, it failed with
\* MessageRoleNotSupported carrying the role Tool and the model identity.
C5_AsStated ==
    (/\ out.op = "to_web_request_data"
     /\ out.adapter \in {"Anthropic", "Gemini"}
     /\ HasToolResponse(chat_req))
    => out.ret = RoleNotSupported(out.model_info)

\* C5 as amended: whenever the Anthropic or the Gemini translator was given
\* a request holding a ToolResponse message, it returned no request
\* descriptor: it failed with MessageRoleNotSupported (role Tool, the model
\* identity) when the credential resolved, and with the credential's error
\* when it did not.
C5_ToolResponseRejected ==
    (/\ out.op = "to_web_request_data"
     /\ out.adapter \in {"Anthropic", "Gemini"}
     /\ HasToolResponse(chat_req))
    => /\ ~out.ret.ok
       /\ IF get_api_key_resolver(out.model_info, out.config_set).ok
          THEN out.ret = RoleNotSupported(out.model_info)
          ELSE out.ret = get_api_key_resolver(out.model_info, out.config_set)

\* C5 witness: with the credential configured, the Gemini translator
\* refused a request whose ToolResponse message is followed by a User
\* message.
C5_Witness ==
    /\ out.op = "to_web_request_data"
    /\ out.adapter = "Gemini"
    /\ out.config_set.api_key.some
    /\ Len(chat_req.messages) = 2
    /\ chat_req.messages[1].role = "ToolResponse"
    /\ chat_req.messages[2].role = "User"
    /\ out.ret = RoleNotSupported(out.model_info)

\* What an OpenAI-style body holds at the paths to_chat_response reads.
FinishReasonOf(body) == pointer(body, <<T_choices, T_0, T_finish_reason>>)

MessageContentOf(body) == pointer(body, <<T_choices, T_0, T_message, T_content>>)

MessageToolCallsOf(body) ==
    pointer(body, <<T_choices, T_0, T_message, T_tool_calls>>)

\* The AssistantToolCall that the vendor's tool-call object v describes.
DescribedCall(v) ==
    LET function == StructField(v, T_function, 3, 3).v
    IN  AssistantToolCall(
            StructField(v, T_id, 1, 3).v.s,
            StructField(v, T_type, 2, 3).v.s,
            StructField(function, T_name, 1, 2).v.s,
            Some(from_str(StructField(function, T_arguments, 2, 2).v.s).v))

C8_ErrorKeyWins ==
    (/\ out.op = "to_chat_response" /\ out.adapter = "Gemini"
     /\ has_key(web_response, T_error))
    => out.ret = Err([kind |-> "StreamEventError", model_info |-> out.model_info,
                      body |-> web_response])

\* C8 witness: a body holding both an `error` key and a valid candidate
\* text was refused with the vendor error.
C8_Witness ==
    /\ out.op = "to_chat_response" /\ out.adapter = "Gemini"
    /\ has_key(web_response, T_error)
    /\ pointer(web_response,
               <<T_candidates, T_0, T_content, T_parts, T_0, T_text>>)
           = Some(JStr(<<"h", "i">>))
    /\ ~out.ret.ok
    /\ out.ret.err.kind = "StreamEventError"
    /\ out.ret.err.body = web_response

\* "Error during '<fn_name>'"
ErrorPrefix(fn_name) == T_Error_during \o fn_name \o <<"'">>

\* C9: whatever func returned, invoke_no_args returned a string: exactly s
\* when func returned Ok(s), and a string beginning with
\* "Error during '<fn_name>'" when func returned an error.
C9_NoArgsResult ==
    out.op = "invoke_no_args"
    => LET returned == CallNoArgs(out.func, out.before).returned
       IN  IF returned.ok
           THEN out.ret = returned.v
           ELSE starts_with(out.ret, ErrorPrefix(out.fn_name))

\* C9 witness: get_current_temperature was invoked with the thermostat at
\* 70 and the result is "70".
C9_Witness ==
    /\ out.op = "invoke_no_args"
    /\ out.func.name = "get_current_temperature"
    /\ out.before = <<"7", "0">>
    /\ out.ret = <<"7", "0">>

\* C10: invoke_with_args returned a string beginning with
\* "Error during '<fn_name>'" whenever args was absent, or did not
\* deserialize into the parameter structure (func is then not called), or
\* func failed; and exactly the string func returned otherwise.
C10_WithArgsResult ==
    out.op = "invoke_with_args"
    => IF ~out.args.some
       THEN starts_with(out.ret, ErrorPrefix(out.fn_name)) /\ ~out.called
       ELSE IF ~SetTemperatureParams_from_value(out.args.v).ok
       THEN starts_with(out.ret, ErrorPrefix(out.fn_name)) /\ ~out.called
       ELSE LET returned ==
                    CallWithArgs(out.func,
                                 SetTemperatureParams_from_value(out.args.v).v,
                                 out.before).returned
            IN  /\ out.called
                /\ IF returned.ok THEN out.ret = returned.v
                   ELSE starts_with(out.ret, ErrorPrefix(out.fn_name))

\* C10 witness: set_current_temperature was invoked with arguments whose
\* temperature is a number, not the text the structure expects; it was not
\* called, the thermostat is unchanged and the result names the function.
C10_Witness ==
    /\ out.op = "invoke_with_args"
    /\ out.func.name = "set_current_temperature"
    /\ out.args = Some(JObj(Member(T_temperature, JNum(75))))
    /\ ~out.called
    /\ thermostat = out.before
    /\ starts_with(out.ret, ErrorPrefix(out.fn_name))

\* The vendor's tool-call object v holds, as its arguments, a text that is
\* not JSON.
HasUnparsableArguments(v) ==
    /\ v.t = "obj"
    /\ T_function \in DOMAIN v.o
    /\ v.o[T_function].t = "obj"
    /\ T_arguments \in DOMAIN v.o[T_function].o
    /\ v.o[T_function].o[T_arguments].t = "str"
    /\ ~from_str(v.o[T_function].o[T_arguments].s).ok

\* C11: whenever OpenAI to_chat_response was given a tool_calls body one of
\* whose calls has arguments that are not valid JSON (the empty text
\* included), it failed with the parse error; and every AssistantToolCall
\* of every response it returned has fn_arguments = Some(value).
C11_MalformedArgumentsFail ==
    (out.op = "to_chat_response" /\ out.adapter = "OpenAI")
    => LET tool_calls == MessageToolCallsOf(web_response)
       IN  /\ (/\ FinishReasonOf(web_response) = Some(JStr(T_tool_calls))
               /\ tool_calls.some
               /\ tool_calls.v.t = "arr"
               /\ \E i \in 1..Len(tool_calls.v.a) :
                      HasUnparsableArguments(tool_calls.v.a[i]))
              => out.ret = Err([kind |-> "SerdeJson"])
           /\ (/\ out.ret.ok
               /\ out.ret.v.payload.variant = "ToolCall"
               /\ out.ret.v.payload.tool_calls.some)
              => \A i \in 1..Len(out.ret.v.payload.tool_calls.v) :
                     out.ret.v.payload.tool_calls.v[i].function.fn_arguments.some

\* C11 witness: a tool_calls body whose only call has the empty text as
\* arguments was refused with the parse error.
C11_Witness ==
    /\ out.op = "to_chat_response" /\ out.adapter = "OpenAI"
    /\ FinishReasonOf(web_response) = Some(JStr(T_tool_calls))
    /\ MessageToolCallsOf(web_response)
           = Some(JArr(<< VendorToolCall(T_call_1, T_function, GetTempName,
                                         A_empty) >>))
    /\ out.ret = Err([kind |-> "SerdeJson"])

\* The system text of a request built by the Anthropic translator (the
\* top-level `system`) or by the Gemini translator (the text of the first
\* systemInstruction part).
SystemFieldOf(adapter, payload) ==
    IF adapter = "Anthropic" THEN pointer(payload, <<T_system>>)
    ELSE pointer(payload, <<T_systemInstruction, T_parts, T_0, T_text>>)

\* C12 as stated: whenever the Anthropic or the Gemini translator has built
\* a request, its system text is the string combine_systems returns for the
\* same ChatRequest, and it is absent exactly when the request has no
\* System message.
C12_AsStated ==
    (/\ out.op = "to_web_request_data"
     /\ out.adapter \in {"Anthropic", "Gemini"}
     /\ out.ret.ok)
    => LET field == SystemFieldOf(out.adapter, out.ret.v.payload)
       IN  /\ field.some <=> iter_systems(chat_req) # <<>>
           /\ field.some => Some(field.v) = Some(JStr(combine_systems(chat_req).v))

\* The texts one after the other, with sep between two of them.
RECURSIVE ConcatWith(_, _)
ConcatWith(texts, sep) ==
    IF texts = <<>> THEN <<>>
    ELSE IF Len(texts) = 1 THEN texts[1]
    ELSE texts[1] \o sep \o ConcatWith(Tail(texts), sep)

\* The messages of a request body.
MessagesOf(payload) == payload.o[T_messages].a

\* The role-"system" message holding the text c.
SystemMessage(c) == JObj(Member(T_role, JStr(T_system)) @@ Member(T_content, JStr(c)))

IsSystemMessage(m) == m.t = "obj" /\ T_role \in DOMAIN m.o /\ m.o[T_role] = JStr(T_system)

\* C13: whenever the OpenAI-family translator has built a request: for a
\* kind other than Ollama the emitted messages are as many as the request's
\* and the role-"system" ones are exactly the System entries, each at the
\* position it had, with its content; for the Ollama kind there is exactly
\* one role-"system" message when the request has a System entry and none
\* otherwise, it is the first message, and its content is all System
\* contents in message order (a line feed between two of them).
C13_SystemPlacement ==
    (out.op = "to_web_request_data" /\ out.adapter = "OpenAI" /\ out.ret.ok)
    => LET msgs == MessagesOf(out.ret.v.payload)
           systems == iter_systems(chat_req)
       IN  IF out.model_info.adapter_kind # "Ollama"
           THEN /\ Len(msgs) = Len(chat_req.messages)
                /\ \A i \in 1..Len(msgs) :
                       IF chat_req.messages[i].role = "System"
                       THEN msgs[i] = SystemMessage(chat_req.messages[i].content)
                       ELSE ~IsSystemMessage(msgs[i])
           ELSE /\ { i \in 1..Len(msgs) : IsSystemMessage(msgs[i]) }
                       = IF systems # <<>> THEN {1} ELSE {}
                /\ systems # <<>>
                   => msgs[1] = SystemMessage(ConcatWith(systems, <<NL>>))

\* C13 witness: for the Ollama kind, a request whose only System entry comes
\* after a User message was built with the system message first.
C13_Witness ==
    /\ out.op = "to_web_request_data" /\ out.adapter = "OpenAI" /\ out.ret.ok
    /\ out.model_info.adapter_kind = "Ollama"
    /\ Len(chat_req.messages) = 2
    /\ chat_req.messages[1].role = "User"
    /\ chat_req.messages[2] = system(<<"a">>)
    /\ MessagesOf(out.ret.v.payload)[1] = SystemMessage(<<"a">>)
    /\ Len(MessagesOf(out.ret.v.payload)) = 2

\* The messages of the request that are not System messages, in order.
NonSystemMessages(req) == SelectSeq(req.messages, LAMBDA m : m.role # "System")

\* The entries a built request holds for the conversation: `messages`
\* without the role-"system" ones (OpenAI), `messages` (Anthropic),
\* `contents` (Gemini).
ConversationEntries(adapter, payload) ==
    IF adapter = "Gemini" THEN payload.o[T_contents].a
    ELSE SelectSeq(MessagesOf(payload), LAMBDA m : ~IsSystemMessage(m))

\* The role a vendor's entry has for a message.
VendorRole(adapter, msg) ==
    CASE msg.role = "User" -> T_user
      [] msg.role = "Assistant" -> IF adapter = "Gemini" THEN T_model ELSE T_assistant
      [] msg.role = "ToolResponse" -> T_tool

\* The text a message carries: its content, or the result of the tool.
CarriedText(msg) ==
    IF msg.role = "ToolResponse" THEN msg.tool_result ELSE msg.content

\* The entry is the vendor's entry for the message: its role and its text.
EntryIsFor(adapter, entry, msg) ==
    /\ entry.o[T_role] = JStr(VendorRole(adapter, msg))
    /\ IF adapter = "Gemini"
       THEN entry.o[T_parts] = JArr(<< JObj(Member(T_text, JStr(CarriedText(msg)))) >>)
       ELSE entry.o[T_content] = JStr(CarriedText(msg))
    /\ (adapter = "OpenAI" /\ msg.role = "ToolResponse")
       => entry.o[T_tool_call_id] = JStr(msg.tool_call_id)

ContentTextsOf(body) ==
    [i \in 1..Len(body.o[T_content].a) |-> body.o[T_content].a[i].o[T_text].s]

\* C15: every response the Anthropic parser returns carries the texts of
\* all the content items of the body concatenated in order, and no content
\* at all when that concatenation is empty: never an empty text, whatever
\* the content array, arrays whose items carry empty text included.
C15_AsStated ==
    (/\ out.op = "to_chat_response"
     /\ out.adapter = "Anthropic"
     /\ out.ret.ok)
        => /\ out.ret.v.payload.variant = "Content"
           /\ out.ret.v.payload.content =
                IF ConcatWith(ContentTextsOf(web_response), <<>>) = <<>>
                THEN None
                ELSE Some(ConcatWith(ContentTextsOf(web_response), <<>>))

\* The usage of a response a parser returned.
UsageOf(o) == o.ret.v.usage

\* An i32 total that equals the integer input + output.
TotalIsSum(total, input, output) ==
    /\ ~AddOverflows(input, output)
    /\ total = input + output

\* total = input + output, a missing one counted as 0, when either is
\* present; no total when both are absent.
TotalIsComputed(usage) ==
    IF usage.input_tokens.some \/ usage.output_tokens.some
    THEN /\ usage.total_tokens.some
         /\ TotalIsSum(usage.total_tokens.v,
                       unwrap_or(usage.input_tokens, 0),
                       unwrap_or(usage.output_tokens, 0))
    ELSE ~usage.total_tokens.some

\* The count the vendor reported under a name of the body's usage object.
VendorCount(body, usage_key, name) ==
    IF /\ body.t = "obj"
       /\ usage_key \in DOMAIN body.o
       /\ body.o[usage_key].t = "obj"
       /\ name \in DOMAIN body.o[usage_key].o
       /\ body.o[usage_key].o[name].t = "num"
    THEN Some(body.o[usage_key].o[name].n)
    ELSE None

\* C16 as stated: the usage of every response a parser returns, whatever
\* the vendor, has total = input + output when either count is present and
\* no total when both are absent.
C16_AsStated ==
    (out.op = "to_chat_response" /\ out.ret.ok) => TotalIsComputed(UsageOf(out))

\* C16: the OpenAI and the Gemini parsers copy the vendor's three counts one
\* to one, so the total is the one the vendor reported and is absent when the
\* vendor reports none; the Anthropic parser copies the two counts and its
\* total is present exactly when one of them is.
C16_TotalPerVendor ==
    (out.op = "to_chat_response" /\ out.ret.ok) =>
        /\ out.adapter = "OpenAI" =>
              UsageOf(out) =
                  MetaUsage(VendorCount(web_response, T_usage, T_prompt_tokens),
                            VendorCount(web_response, T_usage, T_completion_tokens),
                            VendorCount(web_response, T_usage, T_total_tokens))
        /\ out.adapter = "Gemini" =>
              UsageOf(out) =
                  MetaUsage(VendorCount(web_response, T_usageMetadata,
                                        T_promptTokenCount),
                            VendorCount(web_response, T_usageMetadata,
                                        T_candidatesTokenCount),
                            VendorCount(web_response, T_usageMetadata,
                                        T_totalTokenCount))
        /\ out.adapter = "Anthropic" =>
              /\ UsageOf(out).input_tokens =
                     VendorCount(web_response, T_usage, T_input_tokens)
              /\ UsageOf(out).output_tokens =
                     VendorCount(web_response, T_usage, T_output_tokens)
              /\ UsageOf(out).total_tokens.some <=>
                     \/ UsageOf(out).input_tokens.some
                     \/ UsageOf(out).output_tokens.some

\* An OpenAI response whose usage has both counts and no total.
C16_Witness ==
    /\ out.op = "to_chat_response"
    /\ out.adapter = "OpenAI"
    /\ out.ret.ok
    /\ UsageOf(out) = MetaUsage(Some(3), Some(4), None)

\* C17: the Anthropic parser's into_usage always yields a usage, and in it
\* total_tokens = input_tokens + output_tokens, an absent count taken as 0,
\* when at least one of the two is in the vendor's usage object, and no
\* total when both are absent.
C17_AsStated ==
    (out.op = "to_chat_response" /\ out.adapter = "Anthropic") =>
        /\ out.ret # Err([kind |-> "Panic"])
        /\ out.ret.ok => TotalIsComputed(UsageOf(out))

\* C18: every request body the Anthropic translator builds has a max_tokens
\* field, equal to the max_tokens option when it is set and to 1024 when it
\* is not, for the chat and for the streaming service type alike.
C18_MaxTokensAlways ==
    (/\ out.op = "to_web_request_data"
     /\ out.adapter = "Anthropic"
     /\ out.ret.ok)
        => /\ out.service_type \in {"Chat", "ChatStream"}
           /\ T_max_tokens \in DOMAIN out.ret.v.payload.o
           /\ out.ret.v.payload.o[T_max_tokens] =
                IF out.options_set.max_tokens.some
                THEN JNum(out.options_set.max_tokens.v)
                ELSE JNum(1024)

\* A streaming request built with the option unset, carrying the default.
C18_Witness ==
    /\ out.op = "to_web_request_data"
    /\ out.adapter = "Anthropic"
    /\ out.ret.ok
    /\ out.service_type = "ChatStream"
    /\ ~out.options_set.max_tokens.some
    /\ out.ret.v.payload.o[T_max_tokens] = JNum(1024)

\* Whether a null is the value of a key, or an element, anywhere in a value.
RECURSIVE HasNull(_)
HasNull(v) ==
    \/ v.t = "null"
    \/ v.t = "arr" /\ \E i \in 1..Len(v.a) : HasNull(v.a[i])
    \/ v.t = "obj" /\ \E k \in DOMAIN v.o : HasNull(v.o[k])

\* {type: "function", function: {name, description}} and nothing else.
IsBareFunctionSchema(v, fn_name, fn_desc) ==
    /\ v.t = "obj"
    /\ DOMAIN v.o = {T_type, T_function}
    /\ v.o[T_type] = JStr(T_function)
    /\ v.o[T_function].t = "obj"
    /\ DOMAIN v.o[T_function].o = {T_name, T_description}
    /\ v.o[T_function].o[T_name] = JStr(fn_name)
    /\ v.o[T_function].o[T_description] = JStr(fn_desc)

\* The same object extended with function.parameters = {type: "object",
\* properties, required}.
IsFunctionSchemaWithParameters(v, fn_name, fn_desc) ==
    /\ v.t = "obj"
    /\ DOMAIN v.o = {T_type, T_function}
    /\ v.o[T_type] = JStr(T_function)
    /\ v.o[T_function].t = "obj"
    /\ DOMAIN v.o[T_function].o = {T_name, T_description, T_parameters}
    /\ v.o[T_function].o[T_name] = JStr(fn_name)
    /\ v.o[T_function].o[T_description] = JStr(fn_desc)
    /\ v.o[T_function].o[T_parameters].t = "obj"
    /\ DOMAIN v.o[T_function].o[T_parameters].o = {T_type, T_properties, T_required}
    /\ v.o[T_function].o[T_parameters].o[T_type] = JStr(T_object)

\* C19: schema_for_fn_no_param returns {type: "function", function: {name,
\* description}} without a `parameters` key; schema_for_fn_single_param
\* returns the same object with function.parameters = {type: "object",
\* properties, required}; and no key of a generated schema holds a null.
C19_AsStated ==
    /\ out.op = "schema_for_fn_no_param" =>
          /\ IsBareFunctionSchema(out.ret, out.fn_name, out.fn_desc)
          /\ ~HasNull(out.ret)
    /\ out.op = "schema_for_fn_single_param" =>
          /\ IsFunctionSchemaWithParameters(out.ret, out.fn_name, out.fn_desc)
          /\ ~HasNull(out.ret)

\* Whether a key occurs anywhere in a value.
RECURSIVE HasKeyAnywhere(_, _)
HasKeyAnywhere(v, key) ==
    \/ v.t = "arr" /\ \E i \in 1..Len(v.a) : HasKeyAnywhere(v.a[i], key)
    \/ v.t = "obj" /\ \/ key \in DOMAIN v.o
                      \/ \E k \in DOMAIN v.o : HasKeyAnywhere(v.o[k], key)

\* The `properties` of the tool schema generated for a structure.
GeneratedProperties(o) == o.ret.o[T_function].o[T_parameters].o[T_properties]

\* C20: in the tool schema generated for a parameter structure, the entry of
\* function.parameters.properties for every field of an enum type has an
\* `enum` array listing all the values of the enum in place, and the schema
\* has no `$ref` and no `definitions` anywhere.
C20_EnumInline ==
    out.op = "schema_for_fn_single_param" =>
        /\ \A i \in 1..Len(out.TParam.fields) :
              out.TParam.fields[i].ty.kind = "enum" =>
                  /\ out.TParam.fields[i].name \in DOMAIN GeneratedProperties(out).o
                  /\ T_enum \in
                        DOMAIN GeneratedProperties(out).o[out.TParam.fields[i].name].o
                  /\ GeneratedProperties(out).o[out.TParam.fields[i].name].o[T_enum] =
                        StringsArr(out.TParam.fields[i].ty.variants)
        /\ ~HasKeyAnywhere(out.ret, T_ref)
        /\ ~HasKeyAnywhere(out.ret, T_definitions)

\* The schema generated for GetCurrentWeatherParams: `format` lists both
\* units.
C20_Witness ==
    /\ out.op = "schema_for_fn_single_param"
    /\ Len(out.TParam.fields) = 2
    /\ out.TParam.fields[2].name = T_format
    /\ out.TParam.fields[2].ty = TemperatureUnits
    /\ GeneratedProperties(out).o[T_format].o[T_enum] =
          JArr(<< JStr(<<"C", "e", "l", "c", "i", "u", "s">>),
                  JStr(<<"F", "a", "r", "e", "n", "h", "e", "i", "t">>) >>)

\* C25: the request body the OpenAI translator builds has stream_options,
\* equal to {include_usage: true}, exactly when the service type is the
\* streaming one and capture_usage is Some(true); a body that is not for
\* streaming never has it.
C25_StreamOptions ==
    (/\ out.op = "to_web_request_data"
     /\ out.adapter = "OpenAI"
     /\ out.ret.ok)
        => /\ T_stream_options \in DOMAIN out.ret.v.payload.o
                <=> /\ out.service_type = "ChatStream"
                    /\ out.options_set.capture_usage = Some(TRUE)
           /\ T_stream_options \in DOMAIN out.ret.v.payload.o
                => out.ret.v.payload.o[T_stream_options] =
                       JObj(Member(T_include_usage, JBool(TRUE)))
           /\ out.service_type = "Chat"
                => T_stream_options \notin DOMAIN out.ret.v.payload.o

\* A streaming request with capture_usage set, carrying stream_options.
C25_Witness ==
    /\ out.op = "to_web_request_data"
    /\ out.adapter = "OpenAI"
    /\ out.ret.ok
    /\ out.service_type = "ChatStream"
    /\ out.options_set.capture_usage = Some(TRUE)
    /\ T_stream_options \in DOMAIN out.ret.v.payload.o

\* C26: invoke_with_args calls the native function at most once, and only
\* when args is there and was deserialized into the parameter structure;
\* otherwise the function is not called and the thermostat is as it was.
C26_CalledOnlyAfterDeserialization ==
    out.op = "invoke_with_args" =>
        /\ out.calls \in {0, 1}
        /\ out.calls = 1 =>
              /\ out.args.some
              /\ SetTemperatureParams_from_value(out.args.v).ok
        /\ (~out.args.some \/ ~SetTemperatureParams_from_value(out.args.v).ok) =>
              /\ out.calls = 0
              /\ thermostat = out.before

\* A call of the thermostat's setter with arguments of another shape: the
\* setter was not called.
C26_Witness ==
    /\ out.op = "invoke_with_args"
    /\ out.func.name = "set_current_temperature"
    /\ out.args = Some(JObj(Member(T_temperature, JNum(75))))
    /\ out.calls = 0
    /\ thermostat = out.before

\* C27: the Anthropic and the Gemini translators resolve the credential
\* before they translate the conversation: without a credential
\* to_web_request_data fails with the credential's error whatever the
\* request holds, a ToolResponse message included; and a failure of any kind
\* carries no request descriptor.
C27_CredentialFirst ==
    (/\ out.op = "to_web_request_data"
     /\ out.adapter \in {"Anthropic", "Gemini"})
    => /\ ~out.config_set.api_key.some =>
              out.ret = Err([kind |-> "ApiKeyNotFound",
                             model_info |-> out.model_info])
       /\ ~out.ret.ok => DOMAIN out.ret = {"ok", "err"}

\* Without a credential, the Gemini translator was given a request holding
\* a ToolResponse message, and failed with the credential's error.
C27_Witness ==
    /\ out.op = "to_web_request_data"
    /\ out.adapter = "Gemini"
    /\ ~out.config_set.api_key.some
    /\ HasToolResponse(chat_req)
    /\ ~out.ret.ok
    /\ out.ret.err.kind = "ApiKeyNotFound"

\* C29: every response the Anthropic or the Gemini parser returns has a
\* Content payload; a ToolCall payload comes from the OpenAI parser only,
\* and only for a body whose finish_reason is "tool_calls".
C29_ToolCallOnlyFromOpenAI ==
    (out.op = "to_chat_response" /\ out.ret.ok) =>
        /\ out.ret.v.payload.variant \in {"Content", "ToolCall"}
        /\ out.adapter \in {"Anthropic", "Gemini"} =>
              out.ret.v.payload.variant = "Content"
        /\ out.ret.v.payload.variant = "ToolCall" =>
              /\ out.adapter = "OpenAI"
              /\ FinishReasonOf(web_response) = Some(JStr(T_tool_calls))

\* The Anthropic parser returned a response for a body without content
\* items: its payload is Content, with no content.
C29_Witness ==
    /\ out.op = "to_chat_response"
    /\ out.adapter = "Anthropic"
    /\ out.ret.ok
    /\ web_response.o[T_content] = JArr(<<>>)
    /\ out.ret.v.payload = Content(None)

\* Where an event of a vendor's transport keeps a fragment of text.
FragmentPath(adapter_kind, event) ==
    CASE adapter_kind = "Anthropic" ->
            IF event.kind = "Message" /\ event.event_type = "content_block_delta"
            THEN pointer(event.data, <<T_delta, T_text>>) ELSE None
      [] adapter_kind = "Gemini" ->
            IF event.kind = "Block" /\ T_error \notin DOMAIN event.body.o
            THEN pointer(event.body,
                         <<T_candidates, T_0, T_content, T_parts, T_0, T_text>>)
            ELSE None
      [] OTHER ->
            IF event.kind = "Message" /\ T_error \notin DOMAIN event.data.o
            THEN pointer(event.data, <<T_choices, T_0, T_delta, T_content>>)
            ELSE None

\* The fragments of text among the events received, in the order received.
RECURSIVE FragmentsReceived(_, _)
FragmentsReceived(adapter_kind, received) ==
    IF received = <<>> THEN <<>>
    ELSE LET found == FragmentPath(adapter_kind, received[1])
         IN  (IF found.some /\ found.v.t = "str" THEN <<found.v.s>> ELSE <<>>)
             \o FragmentsReceived(adapter_kind, Tail(received))

\* The texts of the chunks handed to the caller, in the order handed over.
RECURSIVE ChunksYielded(_)
ChunksYielded(items) ==
    IF items = <<>> THEN <<>>
    ELSE (IF items[1].kind = "Chunk" THEN <<items[1].content>> ELSE <<>>)
         \o ChunksYielded(Tail(items))

IsVendorError(adapter_kind, event) ==
    CASE adapter_kind = "Anthropic" ->
            event.kind = "Message" /\ event.event_type = "error"
      [] adapter_kind = "Gemini" ->
            event.kind = "Block" /\ T_error \in DOMAIN event.body.o
      [] OTHER ->
            event.kind = "Message" /\ T_error \in DOMAIN event.data.o

AuthEnvName(kind) ==
    CASE kind = "OpenAI" -> "OPENAI_API_KEY"
      [] kind = "Anthropic" -> "ANTHROPIC_API_KEY"
      [] kind = "Gemini" -> "GEMINI_API_KEY"

\* C23: the default configuration of each vendor is initialized at most
\* once however the calls of the tasks interleave; every call returns the
\* one stored value, which names the vendor's environment variable; and a
\* value, once stored, stays as it is.
C23_InitializedOnce ==
    /\ \A kind \in AdapterKinds :
          /\ once[kind].inits <= 1
          /\ once[kind].value.some <=> once[kind].inits = 1
          /\ once[kind].value.some =>
                once[kind].value.v = [auth_env_name |-> Some(AuthEnvName(kind))]
    /\ \A t \in 1..MaxTasks :
          tasks[t].pc = "returned" =>
              /\ once[tasks[t].kind].value = Some(tasks[t].ret)
              /\ tasks[t].ret.auth_env_name = Some(AuthEnvName(tasks[t].kind))

\* Two tasks asked for the same configuration at the same time and hold the
\* same value, initialized once.
C23_Witness ==
    /\ tasks[1].pc = "returned"
    /\ tasks[2].pc = "returned"
    /\ tasks[1].kind = "Anthropic"
    /\ tasks[2].kind = "Anthropic"
    /\ tasks[1].ret = tasks[2].ret
    /\ once["Anthropic"].inits = 1

\* ------------------------------------------------- C24, C28: the c07 loop

\* The loop body has handled a response.
Handled == driver.pc \in {"loop", "done"} /\ driver.calls > 0

\* The calls of the response just handled, if it carried any.
CarriedCalls ==
    IF /\ driver.chat_res.payload.variant = "ToolCall"
       /\ driver.chat_res.payload.tool_calls.some
    THEN Some(driver.chat_res.payload.tool_calls.v)
    ELSE None

\* The messages the loop body appended to the request.
Appended ==
    SubSeq(chat_req.messages, Len(driver.before.messages) + 1,
           Len(chat_req.messages))

\* The calls that name a function main knows.
KnownCalls(calls) ==
    SelectSeq(calls, LAMBDA c : c.function.fn_name \in {GetTempName, SetTempName})

\* msg answers the call.
Answers(msg, call) ==
    /\ msg.role = "ToolResponse"
    /\ msg.tool_call_id = call.tool_call_id
    /\ msg.tool_name = call.function.fn_name

\* msg echoes a list of calls that holds the one msg_r answers.
EchoesCallOf(msg, msg_r) ==
    /\ msg.role = "Assistant"
    /\ msg.extra.some
    /\ \E k \in 1..Len(msg.extra.v) : Answers(msg_r, msg.extra.v[k])

\* C24: when the response carried ToolCall(Some(calls)), the messages
\* appended for the next turn are one Assistant message echoing all the
\* calls, then the ToolResponse messages, each with the tool_call_id and the
\* fn_name of the call it answers, in the order of the calls; and in the
\* history every ToolResponse comes after the Assistant echo of its call.
C24_EchoThenResponses ==
    /\ (Handled /\ CarriedCalls.some) =>
          LET calls == CarriedCalls.v
              known == KnownCalls(calls)
          IN  /\ driver.before.messages
                   = SubSeq(chat_req.messages, 1, Len(driver.before.messages))
              /\ Len(Appended) = 1 + Len(known)
              /\ Appended[1] = from_tool_calls(calls)
              /\ \A k \in 1..Len(known) : Answers(Appended[k + 1], known[k])
    /\ \A i \in 1..Len(chat_req.messages) :
          chat_req.messages[i].role = "ToolResponse" =>
             \E j \in 1..(i - 1) :
                EchoesCallOf(chat_req.messages[j], chat_req.messages[i])

\* Two calls were carried, one was answered, and the echo of both comes
\* before the answer.
C24_Witness ==
    /\ Handled
    /\ CarriedCalls.some
    /\ Len(CarriedCalls.v) = 2
    /\ Len(Appended) = 2
    /\ Appended[2].role = "ToolResponse"
    /\ Appended[2].tool_call_id = T_call_2

\* C28: the loop goes on to another chat call exactly when the response just
\* handled carried ToolCall(Some(calls)), and has stopped after a Content or
\* a ToolCall(None); it goes on also when no call names a known function,
\* and then the history has gained the echo of the calls and no ToolResponse.
C28_ContinuesIffToolCalls ==
    Handled =>
       /\ driver.pc = "loop" <=> CarriedCalls.some
       /\ driver.pc = "done" <=> ~CarriedCalls.some
       /\ (CarriedCalls.some /\ KnownCalls(CarriedCalls.v) = <<>>) =>
             Appended = << from_tool_calls(CarriedCalls.v) >>
       /\ ~CarriedCalls.some =>
             \A k \in 1..Len(Appended) : Appended[k].role = "Assistant"

\* A response whose only call names no known function was handled, and the
\* loop goes on with the echo alone.
C28_Witness ==
    /\ Handled
    /\ driver.pc = "loop"
    /\ CarriedCalls.some
    /\ Len(CarriedCalls.v) = 1
    /\ KnownCalls(CarriedCalls.v) = <<>>
    /\ Len(Appended) = 1

====
